---------------------------- MODULE Spec2Model ----------------------------
(***************************************************************************)
(* cosmolith: the diff-to-event translation engine (src/event/input.rs),   *)
(* the store watcher (src/watcher/input.rs), the consumer loop             *)
(* (src/main.rs) and the adapters behind the capability trait              *)
(* (src/compositor/input.rs; sway.rs, hyprland.rs, niri.rs, kde.rs and     *)
(* gnome.rs in src/compositor).                                            *)
(*                                                                         *)
(* Conventions.  Option<T> is a sequence of length 0 (None) or 1 (Some).    *)
(* A float is a record [nan, v]: v counts tenths, nan marks a NaN, and      *)
(* floats are compared with FloatEq (IEEE: NaN is unequal to everything,    *)
(* itself included), as the derived PartialEq of the config structs does.   *)
(***************************************************************************)
EXTENDS Integers, Sequences, FiniteSets, TLC

VARIABLES
    \* ---- diff engine, one call at a time (DiffSpec)
    domain,     \* which diff function is called
    old,        \* its self argument
    new,        \* its new argument
    out,        \* the Vec<Event> it returned
    dpc,        \* "edit": arguments being chosen, "done": the call returned
    nedits,     \* edits made to new so far
    \* ---- watcher, channel, consumer loop and backend (Spec)
    store,      \* the configuration store: key -> value
    notif,      \* change notifications not yet delivered (each a key list)
    nwrites,    \* notifications raised so far
    snap,       \* InputState: key -> Option<InputConfig>
    chan,       \* the mpsc channel
    sent,       \* history: every event ever put on the channel
    applied,    \* history: one entry per event the loop received
    backend,    \* the compositor chosen at startup (Option)
    conn,       \* the adapter's Option<Connection> (a connection's serial)
    nconn,      \* connections established so far
    faults,     \* environment failures injected so far
    loop_pc,    \* the consumer loop: "running", "exited" or "panicked"
    calls,      \* history: one entry per configuration the callback read
    senders,    \* who holds a clone of the Arc around the channel's Sender
    seen,       \* history: key -> the store's value at its last notification
    \* ---- concurrent callers of one adapter (LockSpec)
    tpc,        \* caller -> where it stands in run_command / send_action
    guard,      \* the caller that holds the connection's MutexGuard (Option)
    inflight,   \* the callers with a protocol operation under way
    tleft,      \* caller -> calls it may still make
    \* ---- concurrent runs of the watch callback (CallbackSpec)
    callback,   \* thread -> its run of the closure: pc, id, keys, old, events, k
    tx_lock,    \* the thread that holds the guard of the Sender's mutex (Option)
    state_lock, \* the thread that holds the guard of the InputState's mutex (Option)
    sent_by,    \* history: for each sent event, the run that sent it and its index
    diffs,      \* history: one entry per run of InputState::from
    \* ---- the debug watcher (DebugSpec)
    debug,      \* run_watcher's debug argument
    last_values,\* key -> the value last read for it (Option)
    printed,    \* history: every line written to stdout or stderr
    reads       \* history: one entry per config.get of the loop

dvars == <<domain, old, new, out, dpc, nedits>>
lvars == <<store, notif, nwrites, snap, chan, sent, applied, backend, conn,
           nconn, faults, loop_pc, calls, senders, seen>>
tvars == <<tpc, guard, inflight, tleft>>
cvars == <<callback, tx_lock, state_lock, sent_by, diffs>>
wvars == <<debug, last_values, printed, reads>>
vars == <<dvars, lvars, tvars, cvars, wvars>>

-----------------------------------------------------------------------------
(* Bounds of the model *)

MaxEdits == 2
MaxNotifs == 2
MaxFaults == 2
MaxLen == 3
MaxThreadCalls == 2

-----------------------------------------------------------------------------
(* Values *)

None == <<>>
Some(v) == <<v>>
IsSome(o) == o # <<>>
Unwrap(o) == o[1]

F(tenths) == [nan |-> FALSE, v |-> tenths]
NaN == [nan |-> TRUE, v |-> 0]

\* f64/f32 PartialEq
FloatEq(a, b) == ~a.nan /\ ~b.nan /\ a.v = b.v

\* Option<f64> PartialEq
OptFloatEq(a, b) ==
    IF IsSome(a) /\ IsSome(b) THEN FloatEq(Unwrap(a), Unwrap(b))
    ELSE IsSome(a) = IsSome(b)

\* [f32; 6] PartialEq: element by element
MatrixEq(a, b) == \A i \in 1..6 : FloatEq(a[i], b[i])

\* Option<[f32; 6]> PartialEq
OptMatrixEq(a, b) ==
    IF IsSome(a) /\ IsSome(b) THEN MatrixEq(Unwrap(a), Unwrap(b))
    ELSE IsSome(a) = IsSome(b)

\* AccelConfig { profile: Option<AccelProfile>, speed: f64 }, derived PartialEq
AccelEq(a, b) == a.profile = b.profile /\ FloatEq(a.speed, b.speed)

OptAccelEq(a, b) ==
    IF IsSome(a) /\ IsSome(b) THEN AccelEq(Unwrap(a), Unwrap(b))
    ELSE IsSome(a) = IsSome(b)

\* ScrollConfig { method, natural_scroll, scroll_button, scroll_factor }
ScrollEq(a, b) ==
    /\ a.method = b.method
    /\ a.natural_scroll = b.natural_scroll
    /\ a.scroll_button = b.scroll_button
    /\ OptFloatEq(a.scroll_factor, b.scroll_factor)

OptScrollEq(a, b) ==
    IF IsSome(a) /\ IsSome(b) THEN ScrollEq(Unwrap(a), Unwrap(b))
    ELSE IsSome(a) = IsSome(b)

\* InputConfig, derived PartialEq (the `self == new` of both diff functions)
InputConfigEq(a, b) ==
    /\ a.state = b.state
    /\ OptAccelEq(a.acceleration, b.acceleration)
    /\ OptMatrixEq(a.calibration, b.calibration)
    /\ a.click_method = b.click_method
    /\ a.disable_while_typing = b.disable_while_typing
    /\ a.left_handed = b.left_handed
    /\ a.middle_button_emulation = b.middle_button_emulation
    /\ a.rotation_angle = b.rotation_angle
    /\ OptScrollEq(a.scroll_config, b.scroll_config)
    /\ a.tap_config = b.tap_config
    /\ a.map_to_output = b.map_to_output

-----------------------------------------------------------------------------
(* Events *)

TouchpadEvent(kind, val) == [dev |-> "TouchPad", kind |-> kind, val |-> val]
MouseEvent(kind, val) == [dev |-> "Mouse", kind |-> kind, val |-> val]
KeyboardEvent(kind, val) == [dev |-> "Keyboard", kind |-> kind, val |-> val]

\* `if c { events.push(e) }`
PushIf(c, e) == IF c THEN <<e>> ELSE <<>>


-----------------------------------------------------------------------------
(* InputConfigDiff::from_touchpad, field by field in declaration order *)

\* a diff that keeps silent when the new value is None
TpDisableWhileTyping_skip_none(o, n) ==
    PushIf(o.disable_while_typing # n.disable_while_typing
               /\ IsSome(n.disable_while_typing),
           TouchpadEvent("DisableWhileTyping", n.disable_while_typing))

TpDisableWhileTyping(o, n) ==
    PushIf(o.disable_while_typing # n.disable_while_typing,
           TouchpadEvent("DisableWhileTyping", n.disable_while_typing))

\* a diff that reports the value the field had
TpLeftHanded_old_value(o, n) ==
    PushIf(o.left_handed # n.left_handed,
           TouchpadEvent("LeftHanded", o.left_handed))

TpLeftHanded(o, n) ==
    PushIf(o.left_handed # n.left_handed,
           TouchpadEvent("LeftHanded", n.left_handed))

\* the coarse event, then the sub-field events, these only inside
\* `if let (Some(old_scroll), Some(new_scroll))`
TpScrollConfig(o, n) ==
    IF ~OptScrollEq(o.scroll_config, n.scroll_config)
    THEN <<TouchpadEvent("ScrollConfig", n.scroll_config)>>
         \o (IF IsSome(o.scroll_config) /\ IsSome(n.scroll_config)
             THEN LET os == Unwrap(o.scroll_config)
                      ns == Unwrap(n.scroll_config)
                  IN PushIf(os.method # ns.method,
                            TouchpadEvent("ScrollMethod", ns.method))
                     \o PushIf(os.natural_scroll # ns.natural_scroll,
                               TouchpadEvent("NaturalScroll", ns.natural_scroll))
                     \o PushIf(os.scroll_button # ns.scroll_button,
                               TouchpadEvent("ScrollButton", ns.scroll_button))
                     \o PushIf(~OptFloatEq(os.scroll_factor, ns.scroll_factor),
                               TouchpadEvent("ScrollFactor", ns.scroll_factor))
             ELSE <<>>)
    ELSE <<>>

\* a diff that looks at the drag flags before the enabled flag
TpTapSubFields_drag_first(ot, nt) ==
    PushIf(ot.drag # nt.drag, TouchpadEvent("TapDrag", nt.drag))
    \o PushIf(ot.drag_lock # nt.drag_lock,
              TouchpadEvent("TapDragLock", nt.drag_lock))
    \o PushIf(ot.enabled # nt.enabled, TouchpadEvent("TapEnabled", nt.enabled))
    \o PushIf(ot.button_map # nt.button_map,
              TouchpadEvent("TapButtonMap", nt.button_map))

\* the sub-field events, inside `if let (Some(old_tap), Some(new_tap))`
TpTapSubFields(ot, nt) ==
    PushIf(ot.enabled # nt.enabled, TouchpadEvent("TapEnabled", nt.enabled))
    \o PushIf(ot.button_map # nt.button_map,
              TouchpadEvent("TapButtonMap", nt.button_map))
    \o PushIf(ot.drag # nt.drag, TouchpadEvent("TapDrag", nt.drag))
    \o PushIf(ot.drag_lock # nt.drag_lock,
              TouchpadEvent("TapDragLock", nt.drag_lock))

\* a diff that pushes the coarse event after the sub-field events
TpTapConfig_coarse_last(o, n) ==
    IF o.tap_config # n.tap_config
    THEN (IF IsSome(o.tap_config) /\ IsSome(n.tap_config)
          THEN TpTapSubFields(Unwrap(o.tap_config), Unwrap(n.tap_config))
          ELSE <<>>)
         \o <<TouchpadEvent("TapConfig", n.tap_config)>>
    ELSE <<>>

TpTapConfig(o, n) ==
    IF o.tap_config # n.tap_config
    THEN <<TouchpadEvent("TapConfig", n.tap_config)>>
         \o (IF IsSome(o.tap_config) /\ IsSome(n.tap_config)
             THEN TpTapSubFields(Unwrap(o.tap_config), Unwrap(n.tap_config))
             ELSE <<>>)
    ELSE <<>>

from_touchpad(o, n) ==
    IF InputConfigEq(o, n) THEN <<>>
    ELSE PushIf(o.state # n.state, TouchpadEvent("State", n.state))
         \o PushIf(~OptAccelEq(o.acceleration, n.acceleration),
                   TouchpadEvent("Acceleration", n.acceleration))
         \o PushIf(~OptMatrixEq(o.calibration, n.calibration),
                   TouchpadEvent("Calibration", n.calibration))
         \o PushIf(o.click_method # n.click_method,
                   TouchpadEvent("ClickMethod", n.click_method))
         \o TpDisableWhileTyping(o, n)
         \o TpLeftHanded(o, n)
         \o PushIf(o.middle_button_emulation # n.middle_button_emulation,
                   TouchpadEvent("MiddleButtonEmulation",
                                 n.middle_button_emulation))
         \o PushIf(o.rotation_angle # n.rotation_angle,
                   TouchpadEvent("RotationAngle", n.rotation_angle))
         \o TpScrollConfig(o, n)
         \o TpTapConfig(o, n)
         \o PushIf(o.map_to_output # n.map_to_output,
                   TouchpadEvent("MapToOutput", n.map_to_output))

-----------------------------------------------------------------------------
(* InputConfigDiff::from_mouse: the same walk; the tap composite has the
   coarse event only *)

from_mouse(o, n) ==
    IF InputConfigEq(o, n) THEN <<>>
    ELSE PushIf(o.state # n.state, MouseEvent("State", n.state))
         \o PushIf(~OptAccelEq(o.acceleration, n.acceleration),
                   MouseEvent("Acceleration", n.acceleration))
         \o PushIf(~OptMatrixEq(o.calibration, n.calibration),
                   MouseEvent("Calibration", n.calibration))
         \o PushIf(o.click_method # n.click_method,
                   MouseEvent("ClickMethod", n.click_method))
         \o PushIf(o.disable_while_typing # n.disable_while_typing,
                   MouseEvent("DisableWhileTyping", n.disable_while_typing))
         \o PushIf(o.left_handed # n.left_handed,
                   MouseEvent("LeftHanded", n.left_handed))
         \o PushIf(o.middle_button_emulation # n.middle_button_emulation,
                   MouseEvent("MiddleButtonEmulation", n.middle_button_emulation))
         \o PushIf(o.rotation_angle # n.rotation_angle,
                   MouseEvent("RotationAngle", n.rotation_angle))
         \o (IF ~OptScrollEq(o.scroll_config, n.scroll_config)
             THEN <<MouseEvent("ScrollConfig", n.scroll_config)>>
                  \o (IF IsSome(o.scroll_config) /\ IsSome(n.scroll_config)
                      THEN LET os == Unwrap(o.scroll_config)
                               ns == Unwrap(n.scroll_config)
                           IN PushIf(os.method # ns.method,
                                     MouseEvent("ScrollMethod", ns.method))
                              \o PushIf(os.natural_scroll # ns.natural_scroll,
                                        MouseEvent("NaturalScroll",
                                                   ns.natural_scroll))
                              \o PushIf(os.scroll_button # ns.scroll_button,
                                        MouseEvent("ScrollButton",
                                                   ns.scroll_button))
                              \o PushIf(~OptFloatEq(os.scroll_factor,
                                                    ns.scroll_factor),
                                        MouseEvent("ScrollFactor",
                                                   ns.scroll_factor))
                      ELSE <<>>)
             ELSE <<>>)
         \o PushIf(o.tap_config # n.tap_config,
                   MouseEvent("TapConfig", n.tap_config))
         \o PushIf(o.map_to_output # n.map_to_output,
                   MouseEvent("MapToOutput", n.map_to_output))

-----------------------------------------------------------------------------
(* XkbConfigDiff::from and KeyboardConfigDiff::from *)

XkbString(kind, a, b) == PushIf(a # b, KeyboardEvent(kind, b))

XkbConfigDiff_from(o, n) ==
    IF o = n THEN <<>>
    ELSE XkbString("Rules", o.rules, n.rules)
         \o XkbString("Model", o.model, n.model)
         \o XkbString("Layout", o.layout, n.layout)
         \o XkbString("Variant", o.variant, n.variant)
         \o PushIf(o.options # n.options, KeyboardEvent("Options", n.options))
         \o PushIf(o.repeat_delay # n.repeat_delay,
                   KeyboardEvent("RepeatDelay", n.repeat_delay))
         \o PushIf(o.repeat_rate # n.repeat_rate,
                   KeyboardEvent("RepeatRate", n.repeat_rate))

KeyboardConfigDiff_from(o, n) ==
    IF o = n THEN <<>>
    ELSE PushIf(o.numlock_state # n.numlock_state,
                KeyboardEvent("NumLock", n.numlock_state))

-----------------------------------------------------------------------------
(* Configuration values the diff functions are called with *)

Identity == <<F(10), F(0), F(0), F(0), F(10), F(0)>>
FlipX == <<F(-10), F(0), F(10), F(0), F(10), F(0)>>
NaNMatrix == <<NaN, F(0), F(0), F(0), F(10), F(0)>>

\* InputConfig::default()
CfgDefault ==
    [state |-> "Enabled", acceleration |-> None, calibration |-> None,
     click_method |-> None, disable_while_typing |-> None,
     left_handed |-> None, middle_button_emulation |-> None,
     rotation_angle |-> None, scroll_config |-> None, tap_config |-> None,
     map_to_output |-> None]

ScrollA ==
    [method |-> Some("TwoFinger"), natural_scroll |-> Some(TRUE),
     scroll_button |-> Some(274), scroll_factor |-> Some(F(10))]
ScrollB ==
    [method |-> Some("Edge"), natural_scroll |-> Some(FALSE),
     scroll_button |-> Some(273), scroll_factor |-> Some(F(25))]
TapA ==
    [enabled |-> TRUE, button_map |-> Some("LeftRightMiddle"),
     drag |-> FALSE, drag_lock |-> FALSE]
TapB ==
    [enabled |-> FALSE, button_map |-> Some("LeftMiddleRight"),
     drag |-> TRUE, drag_lock |-> TRUE]

CfgA ==
    [state |-> "Enabled",
     acceleration |-> Some([profile |-> Some("Flat"), speed |-> F(5)]),
     calibration |-> Some(Identity), click_method |-> Some("Clickfinger"),
     disable_while_typing |-> Some(TRUE), left_handed |-> Some(FALSE),
     middle_button_emulation |-> Some(FALSE), rotation_angle |-> Some(0),
     scroll_config |-> Some(ScrollA), tap_config |-> Some(TapA),
     map_to_output |-> Some("eDP-1")]

\* differs from CfgA in every field and every inner field
CfgB ==
    [state |-> "Disabled",
     acceleration |-> Some([profile |-> Some("Adaptive"), speed |-> F(50)]),
     calibration |-> Some(FlipX), click_method |-> Some("ButtonAreas"),
     disable_while_typing |-> Some(FALSE), left_handed |-> Some(TRUE),
     middle_button_emulation |-> Some(TRUE), rotation_angle |-> Some(90),
     scroll_config |-> Some(ScrollB), tap_config |-> Some(TapB),
     map_to_output |-> Some("HDMI-A-1")]

\* a stored configuration whose acceleration speed is NaN (RON reads `NaN`)
CfgN ==
    [CfgDefault EXCEPT
        !.acceleration = Some([profile |-> None, speed |-> NaN])]

OptBool == {None, Some(TRUE), Some(FALSE)}

\* one field (or one inner field of a present composite) of c set to another value
InputEdits(c) ==
    {[c EXCEPT !.state = v] :
        v \in {"Enabled", "Disabled", "DisabledOnExternalMouse"}}
    \cup {[c EXCEPT !.acceleration = v] :
        v \in {None, Some([profile |-> None, speed |-> F(5)]),
               Some([profile |-> Some("Flat"), speed |-> F(-50)]),
               Some([profile |-> Some("Adaptive"), speed |-> NaN])}}
    \cup {[c EXCEPT !.calibration = v] : v \in {None, Some(Identity), Some(NaNMatrix)}}
    \cup {[c EXCEPT !.click_method = v] :
        v \in {None, Some("ButtonAreas"), Some("Clickfinger")}}
    \cup {[c EXCEPT !.disable_while_typing = v] : v \in OptBool}
    \cup {[c EXCEPT !.left_handed = v] : v \in OptBool}
    \cup {[c EXCEPT !.middle_button_emulation = v] : v \in OptBool}
    \cup {[c EXCEPT !.rotation_angle = v] : v \in {None, Some(0), Some(90)}}
    \cup {[c EXCEPT !.scroll_config = v] : v \in {None, Some(ScrollA)}}
    \cup {[c EXCEPT !.tap_config = v] : v \in {None, Some(TapA)}}
    \cup {[c EXCEPT !.map_to_output = v] : v \in {None, Some("eDP-1"), Some("HDMI-A-1")}}
    \cup (IF IsSome(c.scroll_config)
          THEN {[c EXCEPT !.scroll_config[1].method = v] :
                    v \in {None, Some("TwoFinger"), Some("Edge")}}
               \cup {[c EXCEPT !.scroll_config[1].natural_scroll = v] : v \in OptBool}
               \cup {[c EXCEPT !.scroll_config[1].scroll_button = v] :
                    v \in {None, Some(274), Some(273)}}
               \cup {[c EXCEPT !.scroll_config[1].scroll_factor = v] :
                    v \in {None, Some(F(10)), Some(F(25)), Some(NaN)}}
          ELSE {})
    \cup (IF IsSome(c.tap_config)
          THEN {[c EXCEPT !.tap_config[1].enabled = v] : v \in BOOLEAN}
               \cup {[c EXCEPT !.tap_config[1].button_map = v] :
                    v \in {None, Some("LeftRightMiddle"), Some("LeftMiddleRight")}}
               \cup {[c EXCEPT !.tap_config[1].drag = v] : v \in BOOLEAN}
               \cup {[c EXCEPT !.tap_config[1].drag_lock = v] : v \in BOOLEAN}
          ELSE {})

\* XkbConfig::default() and two other layouts
XkbDefault ==
    [rules |-> "", model |-> "pc104", layout |-> "us", variant |-> "",
     options |-> None, repeat_delay |-> 600, repeat_rate |-> 25]
XkbA ==
    [rules |-> "evdev", model |-> "pc105", layout |-> "us,de", variant |-> "intl",
     options |-> Some("ctrl:nocaps"), repeat_delay |-> 300, repeat_rate |-> 40]

XkbEdits(c) ==
    {[c EXCEPT !.rules = v] : v \in {"", "evdev"}}
    \cup {[c EXCEPT !.model = v] : v \in {"pc104", "pc105"}}
    \cup {[c EXCEPT !.layout = v] : v \in {"us", "us,de"}}
    \cup {[c EXCEPT !.variant = v] : v \in {"", "intl"}}
    \cup {[c EXCEPT !.options = v] :
            v \in {None, Some("ctrl:nocaps"), Some(" ,us, ,de,")}}
    \cup {[c EXCEPT !.repeat_delay = v] : v \in {300, 600}}
    \cup {[c EXCEPT !.repeat_rate = v] : v \in {25, 40}}

NumlockStates == {"BootOn", "BootOff", "LastBoot"}
KeyboardConfigs == {[numlock_state |-> s] : s \in NumlockStates}

Domains == {"touchpad", "mouse", "xkb", "keyboard"}

\* the (old, new) pairs the edits start from: identical snapshots, snapshots
\* that differ in every field, and a composite appearing or disappearing
ArgPairs(d) ==
    CASE d \in {"touchpad", "mouse"} ->
            {<<CfgDefault, CfgDefault>>, <<CfgA, CfgA>>, <<CfgN, CfgN>>,
             <<CfgA, CfgB>>, <<CfgB, CfgA>>, <<CfgDefault, CfgA>>,
             <<CfgA, CfgDefault>>}
      [] d = "xkb" -> {XkbDefault, XkbA} \X {XkbDefault, XkbA}
      [] d = "keyboard" -> KeyboardConfigs \X KeyboardConfigs

Edits(d, c) ==
    CASE d \in {"touchpad", "mouse"} -> InputEdits(c)
      [] d = "xkb" -> XkbEdits(c)
      [] d = "keyboard" -> KeyboardConfigs

-----------------------------------------------------------------------------
(* The idle consumer side, for the specification of the diff engine alone *)

\* no caller threads: the adapter is used by the consumer loop alone
\* the threads on which the store may run the closure given to config.watch
CbThreads == {"w1", "w2"}

\* a thread that is not running the closure
CbIdle == [pc |-> "idle", id |-> 0, keys |-> <<>>, old |-> <<>>,
           events |-> <<>>, k |-> 0, overlap |-> FALSE]

CallbacksIdle ==
    /\ callback = [t \in CbThreads |-> CbIdle]
    /\ tx_lock = None /\ state_lock = None
    /\ sent_by = <<>> /\ diffs = <<>>

\* the debug watcher is not run
WatcherIdle ==
    debug = FALSE /\ last_values = <<>> /\ printed = <<>> /\ reads = <<>>

ThreadsIdle ==
    /\ tpc = <<>> /\ guard = None /\ inflight = {} /\ tleft = <<>>
    /\ CallbacksIdle
    /\ WatcherIdle

LoopIdle ==
    /\ ThreadsIdle
    /\ store = <<>> /\ notif = <<>> /\ nwrites = 0 /\ snap = <<>>
    /\ chan = <<>> /\ sent = <<>> /\ applied = <<>> /\ backend = None
    /\ conn = None /\ nconn = 0 /\ faults = 0 /\ loop_pc = "running"
    /\ calls = <<>> /\ senders = {"main", "watcher"} /\ seen = <<>>

-----------------------------------------------------------------------------
(* DiffSpec: the four diff functions called on chosen arguments *)

DiffInit ==
    /\ domain \in Domains
    /\ \E p \in ArgPairs(domain) : old = p[1] /\ new = p[2]
    /\ out = <<>>
    /\ dpc = "edit"
    /\ nedits = 0
    /\ LoopIdle

\* the caller prepares the new snapshot: one more field is changed
EditNew ==
    /\ dpc = "edit"
    /\ nedits < MaxEdits
    /\ \E c \in Edits(domain, new) : new' = c
    /\ nedits' = nedits + 1
    /\ UNCHANGED <<wvars, domain, old, out, dpc, lvars, tvars, cvars>>

CallFromTouchpad ==
    /\ dpc = "edit" /\ domain = "touchpad"
    /\ out' = from_touchpad(old, new)
    /\ dpc' = "done"
    /\ UNCHANGED <<wvars, domain, old, new, nedits, lvars, tvars, cvars>>

CallFromMouse ==
    /\ dpc = "edit" /\ domain = "mouse"
    /\ out' = from_mouse(old, new)
    /\ dpc' = "done"
    /\ UNCHANGED <<wvars, domain, old, new, nedits, lvars, tvars, cvars>>

CallXkbFrom ==
    /\ dpc = "edit" /\ domain = "xkb"
    /\ out' = XkbConfigDiff_from(old, new)
    /\ dpc' = "done"
    /\ UNCHANGED <<wvars, domain, old, new, nedits, lvars, tvars, cvars>>

CallKeyboardFrom ==
    /\ dpc = "edit" /\ domain = "keyboard"
    /\ out' = KeyboardConfigDiff_from(old, new)
    /\ dpc' = "done"
    /\ UNCHANGED <<wvars, domain, old, new, nedits, lvars, tvars, cvars>>

DiffNext ==
    \/ EditNew
    \/ CallFromTouchpad
    \/ CallFromMouse
    \/ CallXkbFrom
    \/ CallKeyboardFrom

DiffSpec == DiffInit /\ [][DiffNext]_vars

-----------------------------------------------------------------------------
(* The Sway adapter: commands, connection, reconnect-once *)

\* the transport operations one apply_event may need: three commands, a
\* first connect, and a reconnect and a retry per injected failure
MaxOps == 4 + 2 * MaxFaults

\* a mapping that asks sway to flip the setting instead of enabling it
bool_to_sway_toggles(value) == IF value THEN "toggle" ELSE "disabled"

bool_to_sway(value) == IF value THEN "enabled" ELSE "disabled"

\* a mapping that knows no fallback: an unlisted method goes out by its own
\* name
map_click_method_no_default(method) ==
    CASE method = "ButtonAreas" -> "button_areas"
      [] method = "Clickfinger" -> "clickfinger"
      [] OTHER -> method

map_click_method(method) ==
    CASE method = "ButtonAreas" -> "button_areas"
      [] method = "Clickfinger" -> "clickfinger"
      [] OTHER -> "none"

map_scroll_method(method) ==
    CASE method = "TwoFinger" -> "two_finger"
      [] method = "Edge" -> "edge"
      [] method = "OnButtonDown" -> "on_button"
      [] method = "NoScroll" -> "none"
      [] OTHER -> "none"

map_accel_profile(profile) ==
    CASE profile = "Flat" -> "flat"
      [] profile = "Adaptive" -> "adaptive"
      [] OTHER -> "none"

\* no clamping: the speed as it was given
clamp_speed_as_given(speed) == speed

\* speed.max(-1.0).min(1.0); f64::max and f64::min return the other operand
\* when one is NaN
clamp_speed(speed) ==
    LET lo == IF speed.nan \/ speed.v < -10 THEN F(-10) ELSE speed
    IN IF lo.v > 10 THEN F(10) ELSE lo

\* format!("input {target} {setting} {value}")
SwayCmd(target, setting, value) ==
    [target |-> target, setting |-> setting, value |-> value]

\* a set_bool that takes an absent value for "off"
set_bool_none_disables(target, setting, value) ==
    <<SwayCmd(target, setting,
              IF IsSome(value) THEN bool_to_sway(Unwrap(value)) ELSE "disabled")>>

\* set_bool: a command only for Some
set_bool(target, setting, value) ==
    IF IsSome(value)
    THEN <<SwayCmd(target, setting, bool_to_sway(Unwrap(value)))>>
    ELSE <<>>

set_bool_required(target, setting, value) ==
    <<SwayCmd(target, setting, bool_to_sway(value))>>

\* A string is a sequence of one-character strings.
Whitespace == {" ", "\t"}

\* str::trim_start_matches / trim_end_matches for a set of characters
RECURSIVE TrimStart(_, _)
TrimStart(str, strip) ==
    IF str # <<>> /\ Head(str) \in strip THEN TrimStart(Tail(str), strip)
    ELSE str

RECURSIVE TrimEnd(_, _)
TrimEnd(str, strip) ==
    IF str # <<>> /\ str[Len(str)] \in strip
    THEN TrimEnd(SubSeq(str, 1, Len(str) - 1), strip)
    ELSE str

\* str::trim_matches(|c| ..) and, with the whitespace characters, str::trim
TrimMatches(str, strip) == TrimEnd(TrimStart(str, strip), strip)

\* str::split(','): the parts between separators, empty parts included
RECURSIVE SplitAcc(_, _, _)
SplitAcc(str, sep, part) ==
    IF str = <<>> THEN <<part>>
    ELSE IF Head(str) = sep THEN <<part>> \o SplitAcc(Tail(str), sep, <<>>)
    ELSE SplitAcc(Tail(str), sep, Append(part, Head(str)))

Split(str, sep) == SplitAcc(str, sep, <<>>)

\* .filter_map(|part| { let trimmed = part.trim(); non-empty only })
RECURSIVE FilterTrimmed(_)
FilterTrimmed(parts) ==
    IF parts = <<>> THEN <<>>
    ELSE LET trimmed == TrimMatches(Head(parts), Whitespace)
         IN (IF trimmed = <<>> THEN <<>> ELSE <<trimmed>>)
            \o FilterTrimmed(Tail(parts))

\* [..].join(",")
RECURSIVE Join(_, _)
Join(parts, sep) ==
    IF parts = <<>> THEN <<>>
    ELSE IF Len(parts) = 1 THEN parts[1]
    ELSE parts[1] \o <<sep>> \o Join(Tail(parts), sep)

\* a normalization that keeps the segments as they are split
normalize_kb_options_keeps_segments(options) ==
    Join(Split(TrimMatches(options, {","} \cup Whitespace), ","), ",")

\* Sway::normalize_kb_options
normalize_kb_options(options) ==
    Join(FilterTrimmed(Split(TrimMatches(options, {","} \cup Whitespace), ",")),
         ",")

\* the capability methods `impl Input for Sway` overrides
SwayOverrides ==
    ({"Keyboard"} \X {"Rules", "Model", "Layout", "Variant", "Options",
                      "RepeatDelay", "RepeatRate", "NumLock"})
    \cup ({"TouchPad"} \X {"Acceleration", "ClickMethod", "DisableWhileTyping",
                      "LeftHanded", "MiddleButtonEmulation", "ScrollConfig",
                      "ScrollMethod", "NaturalScroll", "ScrollFactor",
                      "ScrollButton", "TapConfig", "TapEnabled", "TapDrag",
                      "TapDragLock"})
    \cup ({"Mouse"} \X {"Acceleration", "ClickMethod", "DisableWhileTyping",
                        "LeftHanded", "MiddleButtonEmulation", "ScrollConfig",
                        "ScrollMethod", "NaturalScroll", "ScrollFactor",
                        "ScrollButton"})

\* the commands an overridden touchpad or mouse method runs, in order; each
\* is run with `?` or returned, so the first failure ends the method
SwayPointerCommands(target, kind, v) ==
    CASE kind = "Acceleration" ->
            IF IsSome(v)
            THEN <<SwayCmd(target, "pointer_accel", clamp_speed(Unwrap(v).speed))>>
                 \o (IF IsSome(Unwrap(v).profile)
                     THEN <<SwayCmd(target, "accel_profile",
                                    map_accel_profile(Unwrap(Unwrap(v).profile)))>>
                     ELSE <<>>)
            ELSE <<>>
      [] kind = "ClickMethod" ->
            IF IsSome(v)
            THEN <<SwayCmd(target, "click_method", map_click_method(Unwrap(v)))>>
            ELSE <<>>
      [] kind = "DisableWhileTyping" -> set_bool(target, "dwt", v)
      [] kind = "LeftHanded" -> set_bool(target, "left_handed", v)
      [] kind = "MiddleButtonEmulation" -> set_bool(target, "middle_emulation", v)
      [] kind = "ScrollConfig" ->
            IF IsSome(v)
            THEN (IF IsSome(Unwrap(v).scroll_factor)
                  THEN <<SwayCmd(target, "scroll_factor",
                                 Unwrap(Unwrap(v).scroll_factor))>>
                  ELSE <<>>)
                 \o set_bool(target, "natural_scroll", Unwrap(v).natural_scroll)
            ELSE <<>>
      [] kind = "ScrollMethod" ->
            IF IsSome(v)
            THEN <<SwayCmd(target, "scroll_method", map_scroll_method(Unwrap(v)))>>
            ELSE <<>>
      [] kind = "NaturalScroll" -> set_bool(target, "natural_scroll", v)
      [] kind = "ScrollFactor" ->
            IF IsSome(v) THEN <<SwayCmd(target, "scroll_factor", Unwrap(v))>>
            ELSE <<>>
      [] kind = "ScrollButton" ->
            IF IsSome(v) THEN <<SwayCmd(target, "scroll_button", Unwrap(v))>>
            ELSE <<>>
      [] kind = "TapConfig" ->
            IF IsSome(v)
            THEN set_bool_required(target, "tap", Unwrap(v).enabled)
                 \o set_bool_required(target, "tap_and_drag", Unwrap(v).drag)
                 \o set_bool_required(target, "drag_lock", Unwrap(v).drag_lock)
            ELSE <<>>
      [] kind = "TapEnabled" -> set_bool_required(target, "tap", v)
      [] kind = "TapDrag" -> set_bool_required(target, "tap_and_drag", v)
      [] kind = "TapDragLock" -> set_bool_required(target, "drag_lock", v)

\* the commands the keyboard methods of Sway run
SwayKeyboardCommands(kind, v) ==
    CASE kind = "Rules" -> <<SwayCmd("type:keyboard", "xkb_rules", v)>>
      [] kind = "Model" -> <<SwayCmd("type:keyboard", "xkb_model", v)>>
      [] kind = "Layout" -> <<SwayCmd("type:keyboard", "xkb_layout", v)>>
      [] kind = "Variant" -> <<SwayCmd("type:keyboard", "xkb_variant", v)>>
      [] kind = "Options" ->
            IF IsSome(v)
            THEN <<SwayCmd("type:keyboard", "xkb_options",
                           normalize_kb_options(Unwrap(v)))>>
            ELSE <<>>
      [] kind = "RepeatDelay" -> <<SwayCmd("type:keyboard", "repeat_delay", v)>>
      [] kind = "RepeatRate" -> <<SwayCmd("type:keyboard", "repeat_rate", v)>>
      [] kind = "NumLock" ->
            CASE v = "BootOn" -> <<SwayCmd("type:keyboard", "xkb_numlock", "enabled")>>
              [] v = "BootOff" -> <<SwayCmd("type:keyboard", "xkb_numlock", "disabled")>>
              [] OTHER -> <<>>

SwayTarget(dev) == IF dev = "TouchPad" THEN "type:touchpad" ELSE "type:pointer"

\* the reply to the operation at the next position of the wire: an I/O
\* error, a reply in which sway reports the command as refused, or success
Reply(m, op) ==
    IF (Len(m.wire) + 1) \in m.fails THEN "failed"
    ELSE IF op = "send" /\ (Len(m.wire) + 1) \in m.rejects THEN "rejected"
    ELSE "ok"

\* a transport that takes a refused command for an error
Transport_refusal_is_error(m, op, cmd) ==
    LET res == Reply(m, op)
    IN [m EXCEPT !.wire = Append(@, [op |-> op, cmd |-> cmd, res |-> res]),
                 !.ok = (res = "ok")]

\* one transport operation on the socket; its outcome is the environment's.
\* Only an I/O error is Err: a refusal is an Err entry inside Ok(results),
\* which run_command logs before it returns Ok(())
Transport(m, op, cmd) ==
    LET res == Reply(m, op)
    IN [m EXCEPT !.wire = Append(@, [op |-> op, cmd |-> cmd, res |-> res]),
                 !.ok = (res # "failed")]

\* Connection::new(): on success the new connection is stored
Connect(m) ==
    LET t == Transport(m, "connect", None)
    IN IF t.ok THEN [t EXCEPT !.conn = Some(m.nconn + 1), !.nconn = m.nconn + 1]
       ELSE t

\* a run_command that reports success whatever the retry did
run_command_ignores_retry(m, cmd) ==
    LET m1 == IF m.conn = None THEN Connect(m) ELSE [m EXCEPT !.ok = TRUE]
    IN IF ~m1.ok THEN m1
       ELSE LET m2 == Transport(m1, "send", Some(cmd))
            IN IF m2.ok THEN m2
               ELSE LET m3 == Connect(m2)
                    IN IF ~m3.ok THEN m3
                       ELSE [Transport(m3, "send", Some(cmd)) EXCEPT !.ok = TRUE]

\* a run_command that reconnects and retries a second time
run_command_retry_again(m, cmd) ==
    LET m1 == IF m.conn = None THEN Connect(m) ELSE [m EXCEPT !.ok = TRUE]
    IN IF ~m1.ok THEN m1
       ELSE LET m2 == Transport(m1, "send", Some(cmd))
            IN IF m2.ok THEN m2
               ELSE LET m3 == Connect(m2)
                    IN IF ~m3.ok THEN m3
                       ELSE LET m4 == Transport(m3, "send", Some(cmd))
                            IN IF m4.ok THEN m4
                               ELSE LET m5 == Connect(m4)
                                    IN IF ~m5.ok THEN m5
                                       ELSE Transport(m5, "send", Some(cmd))

\* Sway::run_command
run_command(m, cmd) ==
    LET m1 == IF m.conn = None THEN Connect(m) ELSE [m EXCEPT !.ok = TRUE]
    IN IF ~m1.ok THEN m1
       ELSE LET m2 == Transport(m1, "send", Some(cmd))
            IN IF m2.ok THEN m2
               ELSE LET m3 == Connect(m2)
                    IN IF ~m3.ok THEN m3
                       ELSE Transport(m3, "send", Some(cmd))

\* a method body that goes on with the next command after an error and
\* reports the error at the end
RECURSIVE RunAll_continue(_, _)
RunAll_continue(m, cmds) ==
    IF cmds = <<>> THEN m
    ELSE LET m1 == run_command(m, Head(cmds))
             r == RunAll_continue(m1, Tail(cmds))
         IN [r EXCEPT !.ok = m1.ok /\ r.ok]

\* a method body: its commands in order, ended by the first error
RECURSIVE RunAll(_, _)
RunAll(m, cmds) ==
    IF cmds = <<>> THEN m
    ELSE LET m1 == run_command(m, Head(cmds))
         IN IF m1.ok THEN RunAll(m1, Tail(cmds)) ELSE m1

\* a default method that talks to the compositor
DefaultMethod_sends(m, ev) ==
    run_command([m EXCEPT !.ok = TRUE],
                SwayCmd(SwayTarget(ev.dev), "events", "enabled"))

\* the trait's default method: log "not implemented", return Ok(())
DefaultMethod(m, ev) == [m EXCEPT !.ok = TRUE]

\* Input::apply_keyboard_event / apply_touchpad_event / apply_mouse_event:
\* the match invokes the one capability method of the event's variant
apply_input_event(m, ev) ==
    [m EXCEPT !.methods = Append(@, <<ev.dev, ev.kind>>)]

\* is the capability method of this event one Sway overrides?
SwayHandles(ev) == <<ev.dev, ev.kind>> \in SwayOverrides

\* Sway::apply_event -> Input::apply_keyboard_event / apply_touchpad_event /
\* apply_mouse_event
SwayApplyEvent(m, ev) ==
    LET d == apply_input_event(m, ev)
    IN IF SwayHandles(ev)
       THEN RunAll([d EXCEPT !.ok = TRUE],
                   IF ev.dev = "Keyboard"
                   THEN SwayKeyboardCommands(ev.kind, ev.val)
                   ELSE SwayPointerCommands(SwayTarget(ev.dev), ev.kind, ev.val))
       ELSE DefaultMethod(d, ev)

-----------------------------------------------------------------------------
(* The Hyprland adapter: stateless keyword calls *)

\* (key, value.to_string()) as Keyword::set receives it
HyprKeyword(key, value) ==
    [target |-> "hyprland", setting |-> key, value |-> value]

bool_to_string(b) == IF b THEN "true" ELSE "false"

\* Hyprland::set_bool
hypr_set_bool(key, value) ==
    IF IsSome(value) THEN <<HyprKeyword(key, bool_to_string(Unwrap(value)))>>
    ELSE <<>>

\* a cleaning that trims the two ends of the string only
hypr_clean_options_ends_only(options) ==
    TrimMatches(options, {","} \cup Whitespace)

\* the cleaning Hyprland::keyboard_options does in line
hypr_clean_options(options) ==
    Join(FilterTrimmed(Split(TrimMatches(options, {","} \cup Whitespace), ",")),
         ",")

\* the capability methods `impl Input for Hyprland` overrides
HyprlandOverrides ==
    ({"Keyboard"} \X {"Rules", "Model", "Layout", "Variant", "Options",
                      "RepeatDelay", "RepeatRate", "NumLock"})
    \cup ({"TouchPad"} \X {"Acceleration", "ClickMethod", "DisableWhileTyping",
                          "LeftHanded", "MiddleButtonEmulation", "ScrollConfig",
                          "ScrollMethod", "NaturalScroll", "ScrollFactor",
                          "TapConfig", "TapEnabled", "TapButtonMap", "TapDrag",
                          "TapDragLock"})
    \cup ({"Mouse"} \X {"Acceleration", "LeftHanded", "ScrollMethod",
                       "NaturalScroll", "ScrollButton"})

\* an acceleration handler that sets the profile before the speed
HyprAcceleration_profile_first(v) ==
    IF IsSome(v)
    THEN (IF IsSome(Unwrap(v).profile)
          THEN <<HyprKeyword("input:accel_profile",
                             IF Unwrap(Unwrap(v).profile) = "Flat"
                             THEN "flat" ELSE "adaptive")>>
          ELSE <<>>)
         \o <<HyprKeyword("input:sensitivity", Unwrap(v).speed)>>
    ELSE <<>>

\* touchpad_acceleration / mouse_acceleration: the speed goes out as it is
HyprAcceleration(v) ==
    IF IsSome(v)
    THEN <<HyprKeyword("input:sensitivity", Unwrap(v).speed)>>
         \o (IF IsSome(Unwrap(v).profile)
             THEN <<HyprKeyword("input:accel_profile",
                                IF Unwrap(Unwrap(v).profile) = "Flat"
                                THEN "flat" ELSE "adaptive")>>
             ELSE <<>>)
    ELSE <<>>

\* Hyprland::map_scroll_method
hypr_map_scroll_method(method) ==
    CASE method = "TwoFinger" -> "2fg"
      [] method = "Edge" -> "edge"
      [] method = "OnButtonDown" -> "on_button"
      [] OTHER -> "none"

\* the keyword calls of an overridden method, in order
HyprlandCommands(dev, kind, v) ==
    CASE dev = "Keyboard" /\ kind = "Rules" -> <<HyprKeyword("input:kb_rules", v)>>
      [] dev = "Keyboard" /\ kind = "Model" -> <<HyprKeyword("input:kb_model", v)>>
      [] dev = "Keyboard" /\ kind = "Layout" -> <<HyprKeyword("input:kb_layout", v)>>
      [] dev = "Keyboard" /\ kind = "Variant" ->
            <<HyprKeyword("input:kb_variant", v)>>
      [] dev = "Keyboard" /\ kind = "Options" ->
            IF IsSome(v)
            THEN <<HyprKeyword("input:kb_options", hypr_clean_options(Unwrap(v)))>>
            ELSE <<>>
      [] dev = "Keyboard" /\ kind = "RepeatDelay" ->
            <<HyprKeyword("input:repeat_delay", v)>>
      [] dev = "Keyboard" /\ kind = "RepeatRate" ->
            <<HyprKeyword("input:repeat_rate", v)>>
      [] dev = "Keyboard" /\ kind = "NumLock" ->
            CASE v = "BootOn" -> <<HyprKeyword("input:numlock_by_default", "true")>>
              [] v = "BootOff" -> <<HyprKeyword("input:numlock_by_default", "false")>>
              [] OTHER -> <<>>
      [] kind = "Acceleration" -> HyprAcceleration(v)
      [] kind = "ClickMethod" ->
            IF IsSome(v)
            THEN <<HyprKeyword("input:touchpad:clickfinger_behavior",
                               bool_to_string(Unwrap(v) = "Clickfinger"))>>
            ELSE <<>>
      [] kind = "DisableWhileTyping" ->
            hypr_set_bool("input:touchpad:disable_while_typing", v)
      [] kind = "LeftHanded" -> hypr_set_bool("input:left_handed", v)
      [] kind = "MiddleButtonEmulation" ->
            hypr_set_bool("input:touchpad:middle_button_emulation", v)
      [] kind = "ScrollConfig" ->
            IF IsSome(v)
            THEN (IF IsSome(Unwrap(v).scroll_factor)
                  THEN <<HyprKeyword("input:touchpad:scroll_factor",
                                     Unwrap(Unwrap(v).scroll_factor))>>
                  ELSE <<>>)
                 \o hypr_set_bool("input:touchpad:natural_scroll",
                                  Unwrap(v).natural_scroll)
            ELSE <<>>
      [] kind = "ScrollMethod" ->
            IF IsSome(v)
            THEN <<HyprKeyword("input:scroll_method",
                               hypr_map_scroll_method(Unwrap(v)))>>
            ELSE <<>>
      [] kind = "NaturalScroll" ->
            hypr_set_bool(IF dev = "TouchPad" THEN "input:touchpad:natural_scroll"
                          ELSE "input:natural_scroll", v)
      [] kind = "ScrollFactor" ->
            IF IsSome(v)
            THEN <<HyprKeyword("input:touchpad:scroll_factor", Unwrap(v))>>
            ELSE <<>>
      [] kind = "ScrollButton" ->
            IF IsSome(v) THEN <<HyprKeyword("input:scroll_button", Unwrap(v))>>
            ELSE <<>>
      [] kind = "TapConfig" ->
            IF IsSome(v)
            THEN <<HyprKeyword("input:touchpad:tap-to-click",
                               bool_to_string(Unwrap(v).enabled)),
                   HyprKeyword("input:touchpad:tap-and-drag",
                               bool_to_string(Unwrap(v).drag)),
                   HyprKeyword("input:touchpad:drag_lock",
                               bool_to_string(Unwrap(v).drag_lock))>>
            ELSE <<>>
      [] kind = "TapEnabled" ->
            <<HyprKeyword("input:touchpad:tap-to-click", bool_to_string(v))>>
      [] kind = "TapButtonMap" ->
            IF IsSome(v)
            THEN <<HyprKeyword("input:touchpad:tap_button_map",
                               IF Unwrap(v) = "LeftMiddleRight" THEN "lmr"
                               ELSE "lrm")>>
            ELSE <<>>
      [] kind = "TapDrag" ->
            <<HyprKeyword("input:touchpad:tap-and-drag", bool_to_string(v))>>
      [] kind = "TapDragLock" ->
            <<HyprKeyword("input:touchpad:drag_lock", bool_to_string(v))>>

\* Hyprland::set_keyword for each call in turn, ended by the first error
RECURSIVE HyprRunAll(_, _)
HyprRunAll(m, cmds) ==
    IF cmds = <<>> THEN m
    ELSE LET m1 == Transport(m, "keyword", Some(Head(cmds)))
         IN IF m1.ok THEN HyprRunAll(m1, Tail(cmds)) ELSE m1

\* Hyprland::apply_event
HyprlandApplyEvent(m, ev) ==
    LET d == apply_input_event(m, ev)
    IN IF <<ev.dev, ev.kind>> \in HyprlandOverrides
       THEN HyprRunAll([d EXCEPT !.ok = TRUE],
                       HyprlandCommands(ev.dev, ev.kind, ev.val))
       ELSE DefaultMethod(d, ev)

-----------------------------------------------------------------------------
(* The KDE adapter (src/compositor/kde.rs) *)

\* Kde::reload: the reconfigure call is made only when there is a connection
KdeReload(m) ==
    IF m.conn = None THEN [m EXCEPT !.ok = TRUE]
    ELSE Transport(m, "reconfigure", None)

\* Kde::run_kde_cmd: spawn kwriteconfig6 (only a spawn error is an error, the
\* exit status is not looked at), then reload()
run_kde_cmd(m, cmd) ==
    LET m1 == Transport(m, "write", Some(cmd))
    IN IF ~m1.ok THEN m1 ELSE KdeReload(m1)

\* `impl Input for Kde`: (group, key, value.to_string()) of the method's write
KdeWrites(dev, kind, v) ==
    LET w(group, key, value) ==
            <<[target |-> group, setting |-> key, value |-> value]>>
    IN CASE dev = "TouchPad" /\ kind = "NaturalScroll" ->
              IF IsSome(v) THEN w("Libinput", "NaturalScroll",
                                  bool_to_string(Unwrap(v)))
              ELSE <<>>
         [] dev = "TouchPad" /\ kind = "TapEnabled" ->
              w("Libinput", "TapToClick", bool_to_string(v))
         [] dev = "Mouse" /\ kind = "LeftHanded" ->
              IF IsSome(v) THEN w("Mouse", "LeftHanded", bool_to_string(Unwrap(v)))
              ELSE <<>>
         [] dev = "Mouse" /\ kind = "ScrollFactor" ->
              IF IsSome(v) THEN w("Mouse", "WheelScrollLines", Unwrap(v))
              ELSE <<>>
         [] OTHER -> <<>>

\* Kde::apply_event: mouse and touchpad events go to the capability methods,
\* any other event falls to `_ => ()`; the methods not overridden are the
\* trait's defaults
KdeApplyEvent(m, ev) ==
    IF ev.dev \in {"Mouse", "TouchPad"}
    THEN LET d == apply_input_event(m, ev)
             ws == KdeWrites(ev.dev, ev.kind, ev.val)
         IN IF ws = <<>> THEN DefaultMethod(d, ev)
            ELSE run_kde_cmd([d EXCEPT !.ok = TRUE], ws[1])
    ELSE [m EXCEPT !.ok = TRUE]

-----------------------------------------------------------------------------
(* The GNOME adapter (src/compositor/gnome.rs) *)

\* `impl Input for Gnome`: (schema, key, value) of the method's settings write
GnomeWrites(dev, kind, v) ==
    LET w(schema, key, value) ==
            <<[target |-> schema, setting |-> key, value |-> value]>>
        opt(schema, key) == IF IsSome(v) THEN w(schema, key, Unwrap(v)) ELSE <<>>
    IN CASE dev = "TouchPad" /\ kind = "TapEnabled" ->
              w("peripherals.touchpad", "tap-to-click", v)
         [] dev = "TouchPad" /\ kind = "NaturalScroll" ->
              opt("peripherals.touchpad", "natural-scroll")
         [] dev = "TouchPad" /\ kind = "DisableWhileTyping" ->
              opt("peripherals.touchpad", "disable-while-typing")
         [] dev = "TouchPad" /\ kind = "LeftHanded" ->
              IF IsSome(v)
              THEN w("peripherals.touchpad", "haptic-output-mode",
                     IF Unwrap(v) THEN "left" ELSE "mouse")
              ELSE <<>>
         [] dev = "Mouse" /\ kind = "LeftHanded" ->
              opt("peripherals.mouse", "left-handed")
         [] dev = "Mouse" /\ kind = "NaturalScroll" ->
              opt("peripherals.mouse", "natural-scroll")
         [] OTHER -> <<>>

\* Gnome::set_str / set_bool / set_double: Settings::set_* and nothing else
GnomeSet(m, cmd) == Transport(m, "set", Some(cmd))

\* Gnome::apply_event: the same shape as Kde::apply_event
GnomeApplyEvent(m, ev) ==
    IF ev.dev \in {"Mouse", "TouchPad"}
    THEN LET d == apply_input_event(m, ev)
             ws == GnomeWrites(ev.dev, ev.kind, ev.val)
         IN IF ws = <<>> THEN DefaultMethod(d, ev)
            ELSE GnomeSet([d EXCEPT !.ok = TRUE], ws[1])
    ELSE [m EXCEPT !.ok = TRUE]

-----------------------------------------------------------------------------
(* The Niri adapter (src/compositor/niri.rs) *)

\* the capability methods of `impl Input for Niri` whose body is todo!()
NiriTodo ==
    ({"Keyboard"} \X {"Options", "RepeatDelay", "RepeatRate"})
    \cup ({"TouchPad"} \X {"State", "Acceleration", "ClickMethod",
                          "DisableWhileTyping", "LeftHanded",
                          "MiddleButtonEmulation", "RotationAngle",
                          "ScrollConfig", "ScrollMethod", "NaturalScroll",
                          "ScrollFactor", "ScrollButton", "TapConfig",
                          "TapEnabled", "TapButtonMap", "TapDrag", "TapDragLock"})
    \cup ({"Mouse"} \X {"State", "Acceleration", "ClickMethod",
                       "DisableWhileTyping", "LeftHanded",
                       "MiddleButtonEmulation", "RotationAngle", "ScrollConfig",
                       "ScrollMethod", "NaturalScroll", "ScrollFactor",
                       "ScrollButton", "TapConfig", "MapToOutput"})

\* Niri::apply_event: "panicked" where the method is todo!(); keyboard_layout
\* returns Ok(()) and the other methods are the trait's defaults
NiriApplyEvent(m, ev) ==
    LET d == apply_input_event(m, ev)
    IN IF <<ev.dev, ev.kind>> \in NiriTodo
       THEN [d EXCEPT !.ok = FALSE, !.panicked = TRUE]
       ELSE [DefaultMethod(d, ev) EXCEPT !.panicked = FALSE]

\* Niri::send_action: connect if there is no socket, send with `?`, then
\* Ok(()) on Ok(_) and Err on Err(msg); `reply` is what niri answered
send_action(m, action, reply) ==
    LET m1 == IF m.conn = None THEN Connect(m) ELSE [m EXCEPT !.ok = TRUE]
    IN IF ~m1.ok THEN m1
       ELSE LET m2 == Transport(m1, "send",
                                Some([target |-> "niri", setting |-> "action",
                                      value |-> action.val]))
            IN IF ~m2.ok THEN m2 ELSE [m2 EXCEPT !.ok = (reply = "Ok")]

Machine(fails) ==
    [conn |-> conn, nconn |-> nconn, wire |-> <<>>, ok |-> TRUE, fails |-> fails,
     rejects |-> {}, panicked |-> FALSE, methods |-> <<>>]

\* the commands of one run that sway may refuse: at most one
Refusals(ops) == {{}} \cup {{p} : p \in ops}

\* the chosen refusals all happened in this run
Refused(m) ==
    \A p \in m.rejects : p \in DOMAIN m.wire /\ m.wire[p].res = "rejected"

\* the operations of one run the environment may fail, within budget
Outcomes(ops, budget) ==
    IF budget <= 0 THEN {{}}
    ELSE {x \in SUBSET ops : Cardinality(x) <= budget}

\* the chosen failures all happened in this run
Consumed(m) == m.fails \subseteq DOMAIN m.wire

-----------------------------------------------------------------------------
(* The watcher: InputState::from and the watch callback *)

Keys == {"input_touchpad", "input_default"}

TpBase == CfgA
TpTapOff == [CfgA EXCEPT !.tap_config[1].enabled = FALSE]
TpOther ==
    [CfgA EXCEPT !.left_handed = None,
                 !.tap_config[1].button_map = Some("LeftMiddleRight")]
MsBase == CfgDefault
MsFast ==
    [CfgDefault EXCEPT
        !.acceleration = Some([profile |-> Some("Flat"), speed |-> F(20)]),
        !.map_to_output = Some("HDMI-A-1")]

StoreValues(key) ==
    IF key = "input_touchpad" THEN {TpBase, TpTapOff, TpOther}
    ELSE {MsBase, MsFast}

\* the commits the settings side makes: the key list of the notification and
\* the values written; "xkb_config" is a key of the same store the input
\* watcher does not know
Commits ==
    {[keys |-> <<"input_touchpad">>, tp |-> Some(v), ms |-> None] :
        v \in StoreValues("input_touchpad")}
    \cup {[keys |-> <<"xkb_config", "input_default">>,
           tp |-> None, ms |-> Some(MsFast)],
          [keys |-> <<"input_touchpad", "input_default">>,
           tp |-> Some(TpTapOff), ms |-> Some(MsBase)]}

Range(seq) == {seq[i] : i \in DOMAIN seq}

\* from_touchpad / from_mouse by key
DiffOf(key, o, n) ==
    IF key = "input_touchpad" THEN from_touchpad(o, n) ELSE from_mouse(o, n)

\* an iteration that diffs against the default configuration when it has no
\* snapshot
FromKey_diffs_default(w, key, readok) ==
    IF key \in Keys
    THEN IF key \in readok
         THEN LET o == w.snap[key]
                  n == store[key]
                  evs == DiffOf(key, IF IsSome(o) THEN Unwrap(o) ELSE CfgDefault, n)
              IN [snap |-> [w.snap EXCEPT ![key] = Some(n)],
                  events |-> w.events \o evs,
                  calls |-> Append(w.calls,
                                   [key |-> key, old |-> o, new |-> n,
                                    at |-> Len(sent) + Len(w.events),
                                    n_events |-> Len(evs)])]
         ELSE w
    ELSE w

\* an iteration that forgets the snapshot of a key it could not read
FromKey_clears_on_error(w, key, readok) ==
    IF key \in Keys
    THEN IF key \in readok
         THEN LET o == w.snap[key]
                  n == store[key]
                  evs == IF IsSome(o) THEN DiffOf(key, Unwrap(o), n) ELSE <<>>
              IN [snap |-> [w.snap EXCEPT ![key] = Some(n)],
                  events |-> w.events \o evs,
                  calls |-> Append(w.calls,
                                   [key |-> key, old |-> o, new |-> n,
                                    at |-> Len(sent) + Len(w.events),
                                    n_events |-> Len(evs)])]
         ELSE [w EXCEPT !.snap[key] = None]
    ELSE w

\* one iteration of `for key in keys`: w = [snap, events, calls]
FromKey(w, key, readok) ==
    IF key \in Keys
    THEN IF key \in readok
         THEN LET o == w.snap[key]
                  n == store[key]
                  evs == IF IsSome(o) THEN DiffOf(key, Unwrap(o), n) ELSE <<>>
              IN [snap |-> [w.snap EXCEPT ![key] = Some(n)],
                  events |-> w.events \o evs,
                  calls |-> Append(w.calls,
                                   [key |-> key, old |-> o, new |-> n,
                                    at |-> Len(sent) + Len(w.events),
                                    n_events |-> Len(evs)])]
         ELSE w     \* Err(e): logged, snapshot kept
    ELSE w          \* unknown key: logged

\* InputState::from(cfg, keys)
RECURSIVE FromKeys(_, _, _)
FromKeys(w, keys, readok) ==
    IF keys = <<>> THEN w
    ELSE FromKeys(FromKey(w, Head(keys), readok), Tail(keys), readok)

RECURSIVE Reverse(_)
Reverse(seq) ==
    IF seq = <<>> THEN <<>> ELSE Append(Reverse(Tail(seq)), Head(seq))

\* a callback that sends the events of a diff last first
SendAll_reversed(ch, events) == ch \o Reverse(events)

\* `for event in events { sender.send(event) }` on the unbounded channel
SendAll(ch, events) == ch \o events

\* a channel that hands out the newest event
Recv_newest(ch) ==
    [event |-> ch[Len(ch)], rest |-> SubSeq(ch, 1, Len(ch) - 1)]

\* rx.recv_timeout: the oldest event
Recv(ch) == [event |-> Head(ch), rest |-> Tail(ch)]

\* a loop that gives up at the first error
AfterApply_stop(ok) == IF ok THEN "running" ELSE "exited"

\* the loop after apply_event returned: both arms only log
AfterApply(ok) == "running"

-----------------------------------------------------------------------------
(* Spec: store writes, the watch callback, the consumer loop *)

DiffIdle ==
    /\ domain = "touchpad" /\ old = CfgDefault /\ new = CfgDefault
    /\ out = <<>> /\ dpc = "idle" /\ nedits = 0

\* main up to its loop, with `touchpad` the touchpad configuration stored
Startup(touchpad) ==
    /\ DiffIdle
    /\ ThreadsIdle
    /\ store = [input_touchpad |-> touchpad, input_default |-> MsBase]
    /\ notif = <<>>
    /\ nwrites = 0
    \* config.get(..).ok() at watcher start: a failed read leaves None
    /\ \E got \in {Keys, {}} :
         snap = [k \in Keys |-> IF k \in got THEN Some(store[k]) ELSE None]
    /\ chan = <<>>
    /\ sent = <<>>
    /\ applied = <<>>
    \* init_compositor: Some only if init() connected
    /\ backend \in {None, Some("Sway")}
    /\ conn = IF backend = None THEN None ELSE Some(1)
    /\ nconn = IF backend = None THEN 0 ELSE 1
    /\ faults = 0
    /\ loop_pc = "running"
    /\ calls = <<>>
    \* main keeps its `tx`, the callback owns the clone it was given
    /\ senders = {"main", "watcher"}
    /\ seen = [k \in Keys |-> Some(store[k])]

Init == Startup(TpBase)

\* the settings side commits new values for the keys of one key list, or
\* writes the stored touchpad configuration again; the store raises one
\* notification (also when a value written is the value already stored)
StoreWrite ==
    /\ nwrites < MaxNotifs
    /\ \E c \in Commits \cup {[keys |-> <<"input_touchpad">>,
                                tp |-> Some(store.input_touchpad), ms |-> None]} :
        /\ store' = [input_touchpad |->
                        IF IsSome(c.tp) THEN Unwrap(c.tp) ELSE store.input_touchpad,
                     input_default |->
                        IF IsSome(c.ms) THEN Unwrap(c.ms) ELSE store.input_default]
        /\ notif' = Append(notif, c.keys)
    /\ nwrites' = nwrites + 1
    /\ UNCHANGED <<wvars, dvars, tvars, cvars, senders, seen, snap, chan, sent, applied, backend, conn, nconn,
                   faults, loop_pc, calls>>

\* the watch callback, run with the sender and the state locked throughout
WatchCallback ==
    /\ "watcher" \in senders
    /\ notif # <<>>
    /\ \E readok \in SUBSET (Range(Head(notif)) \cap Keys) :
        LET failed == (Range(Head(notif)) \cap Keys) \ readok
            w == FromKeys([snap |-> snap, events |-> <<>>, calls |-> calls],
                          Head(notif), readok)
        IN /\ faults + Cardinality(failed) <= MaxFaults
           /\ faults' = faults + Cardinality(failed)
           /\ snap' = w.snap
           /\ calls' = w.calls
           /\ chan' = SendAll(chan, w.events)
           /\ sent' = sent \o w.events
    /\ notif' = Tail(notif)
    /\ seen' = [k \in Keys |-> IF k \in Range(Head(notif)) THEN Some(store[k])
                                ELSE seen[k]]
    /\ UNCHANGED <<wvars, dvars, tvars, cvars, senders, store, nwrites, applied, backend, conn, nconn,
                   loop_pc>>

\* a loop that hands the event to an adapter whatever init_compositor gave
Active_always(compositor) == TRUE

\* `if let Some(ref comp) = compositor`
Active(compositor) == IsSome(compositor)

\* Ok(event): log it and, with a backend, apply it
LoopRecv ==
    /\ loop_pc = "running"
    /\ chan # <<>>
    /\ LET r == Recv(chan)
       IN /\ chan' = r.rest
          /\ IF Active(backend)
             THEN \E fails \in Outcomes(1..MaxOps, MaxFaults - faults) :
                    LET m == SwayApplyEvent(Machine(fails), r.event)
                    IN /\ Consumed(m)
                       /\ faults' = faults + Cardinality(fails)
                       /\ conn' = m.conn
                       /\ nconn' = m.nconn
                       /\ applied' = Append(applied,
                             [ev |-> r.event, dispatched |-> TRUE, ok |-> m.ok,
                              wire |-> m.wire, conn0 |-> conn, conn1 |-> m.conn,
                              methods |-> m.methods])
                       /\ loop_pc' = AfterApply(m.ok)
             ELSE /\ applied' = Append(applied,
                        [ev |-> r.event, dispatched |-> FALSE, ok |-> TRUE,
                         wire |-> <<>>, conn0 |-> conn, conn1 |-> conn,
                         methods |-> <<>>])
                  /\ UNCHANGED <<faults, conn, nconn, loop_pc>>
    /\ UNCHANGED <<wvars, dvars, tvars, cvars, senders, seen, store, notif, nwrites, snap, sent, backend,
                   calls>>

\* what recv_timeout returns on an empty channel: Disconnected once every
\* Sender is gone, Timeout as long as one is alive
RecvError(holders) == IF holders = {} THEN "Disconnected" ELSE "Timeout"

\* Err(Timeout): nothing arrived for five seconds, continue;
\* Err(Disconnected): break
LoopTimeout ==
    /\ loop_pc = "running"
    /\ chan = <<>>
    /\ loop_pc' = IF RecvError(senders) = "Disconnected" THEN "exited"
                  ELSE "running"
    /\ UNCHANGED <<wvars, dvars, tvars, cvars, senders, seen, store, notif, nwrites, snap, chan, sent,
                   applied, backend, conn, nconn, faults, calls>>

Next == StoreWrite \/ WatchCallback \/ LoopRecv \/ LoopTimeout

Spec == Init /\ [][Next]_vars

\* the program started on a store whose touchpad acceleration speed is NaN
RewriteSpec == Startup(CfgN) /\ [][Next]_vars

-----------------------------------------------------------------------------
(* ShutdownSpec: the watcher may go away while the loop runs *)

\* the watcher handle and, with it, the callback and its clone of `tx` are
\* dropped; main's own `tx` lives until main returns
DropWatcher ==
    /\ "watcher" \in senders
    /\ senders' = senders \ {"watcher"}
    /\ UNCHANGED <<wvars, dvars, tvars, cvars, seen, store, notif, nwrites, snap, chan, sent,
                   applied, backend, conn, nconn, faults, loop_pc, calls>>

ShutdownNext == Next \/ DropWatcher

\* the loop's thread and the callback's thread keep running
ShutdownSpec ==
    /\ Init
    /\ [][ShutdownNext]_vars
    /\ WF_vars(LoopRecv) /\ WF_vars(LoopTimeout) /\ WF_vars(WatchCallback)

-----------------------------------------------------------------------------
(* AdapterSpec: one adapter, called directly with chosen arguments.  `chan`
   holds the arguments of the calls still to be made. *)

\* the example of the documentation: " ,us, ,de,"
OptionsExample == <<" ", ",", "u", "s", ",", " ", ",", "d", "e", ",">>

\* every string of at most MaxLen characters out of "u", "," and " "
OptionStrings ==
    UNION {[1..n -> {"u", ",", " "}] : n \in 0..MaxLen}
    \cup {OptionsExample, <<"\t", "u", " ", "u", ",", "\t">>}

Speeds == {F(-50), F(-10), F(5), F(10), F(50), NaN}

AccelConfigs ==
    {[profile |-> p, speed |-> sp] : p \in {None, Some("Flat"), Some("Adaptive")},
                                     sp \in Speeds}

\* a variant added to one of the mode enums after the adapters were written
UnknownVariant == "Unknown"

\* the events an adapter is called with
AdapterEvents ==
    {KeyboardEvent("Options", Some(o)) : o \in OptionStrings}
    \cup {KeyboardEvent("Options", None), KeyboardEvent("Rules", "evdev"),
          KeyboardEvent("Model", "pc105"), KeyboardEvent("Layout", "us"),
          KeyboardEvent("Variant", "intl"), KeyboardEvent("RepeatDelay", 600),
          KeyboardEvent("RepeatRate", 25)}
    \cup {KeyboardEvent("NumLock", n) : n \in NumlockStates}
    \cup {TouchpadEvent("TapEnabled", TRUE), TouchpadEvent("TapDrag", FALSE),
          TouchpadEvent("TapDragLock", TRUE),
          TouchpadEvent("TapButtonMap", Some("LeftMiddleRight")),
          \* a variant the adapters do not list
          TouchpadEvent("TapButtonMap", Some(UnknownVariant)),
          TouchpadEvent("TapButtonMap", None)}
    \cup UNION {
          {[dev |-> dev, kind |-> "Acceleration", val |-> Some(a)] :
              a \in AccelConfigs}
          \cup {[dev |-> dev, kind |-> "Acceleration", val |-> None],
                [dev |-> dev, kind |-> "State", val |-> "Disabled"],
                [dev |-> dev, kind |-> "Calibration", val |-> Some(FlipX)],
                [dev |-> dev, kind |-> "ClickMethod", val |-> Some("Clickfinger")],
                [dev |-> dev, kind |-> "ClickMethod", val |-> Some(UnknownVariant)],
                [dev |-> dev, kind |-> "ScrollMethod", val |-> Some(UnknownVariant)],
                [dev |-> dev, kind |-> "Acceleration",
                 val |-> Some([profile |-> Some(UnknownVariant), speed |-> F(5)])],
                [dev |-> dev, kind |-> "RotationAngle", val |-> Some(90)],
                [dev |-> dev, kind |-> "ScrollConfig", val |-> Some(ScrollA)],
                [dev |-> dev, kind |-> "ScrollMethod", val |-> Some("Edge")],
                [dev |-> dev, kind |-> "ScrollFactor", val |-> Some(F(25))],
                [dev |-> dev, kind |-> "ScrollButton", val |-> Some(274)],
                [dev |-> dev, kind |-> "TapConfig", val |-> Some(TapB)],
                [dev |-> dev, kind |-> "MapToOutput", val |-> Some("eDP-1")]}
          \cup {[dev |-> dev, kind |-> k, val |-> b] :
                  k \in {"DisableWhileTyping", "LeftHanded",
                         "MiddleButtonEmulation", "NaturalScroll"},
                  b \in {None, Some(TRUE)}}
          \* the absent payload of the other optional variants
          \cup {[dev |-> dev, kind |-> k, val |-> None] :
                  k \in {"ClickMethod", "ScrollConfig", "ScrollMethod",
                         "ScrollFactor", "ScrollButton", "TapConfig"}}
          : dev \in {"TouchPad", "Mouse"}}

\* niri_ipc::Action values, as the argument of a send_action call
NiriActions ==
    {[dev |-> "Action", kind |-> k, val |-> k] :
        k \in {"SwitchLayoutNext", "SwitchLayoutPrev"}}

AdapterInit ==
    /\ DiffIdle
    /\ ThreadsIdle
    /\ store = <<>> /\ notif = <<>> /\ nwrites = 0 /\ snap = <<>> /\ calls = <<>>
    /\ senders = {"main", "watcher"} /\ seen = <<>>
    /\ backend \in {Some("Sway"), Some("Hyprland"), Some("Niri"), Some("Kde"),
                    Some("Gnome")}
    \* new() leaves the connection empty, init() fills it; Hyprland and Gnome
    \* keep none
    /\ conn \in IF backend \in {Some("Hyprland"), Some("Gnome")} THEN {None}
                ELSE {None, Some(1)}
    /\ nconn = IF conn = None THEN 0 ELSE 1
    \* one event, or on Sway and Hyprland the same event twice in a row, or a
    \* touchpad event and then the mouse event of the same variant and payload
    /\ chan \in {<<ev>> : ev \in AdapterEvents}
                \cup IF backend \in {Some("Sway"), Some("Hyprland")}
                     THEN {<<ev, ev>> : ev \in AdapterEvents}
                          \cup {<<ev, [ev EXCEPT !.dev = "Mouse"]>> :
                                  ev \in {e \in AdapterEvents :
                                            /\ e.dev = "TouchPad"
                                            /\ [e EXCEPT !.dev = "Mouse"]
                                                  \in AdapterEvents}}
                     ELSE {}
                \cup IF backend = Some("Niri")
                     THEN {<<a>> : a \in NiriActions}
                          \cup {<<a, b>> : a \in NiriActions, b \in NiriActions}
                     ELSE {}
    /\ sent = chan
    /\ applied = <<>>
    /\ faults = 0
    /\ loop_pc = "running"

\* what a call that returned leaves behind
Returned_call(ev, m) ==
    /\ faults' = faults + Cardinality(m.fails)
    /\ conn' = m.conn
    /\ nconn' = m.nconn
    /\ applied' = Append(applied,
          [ev |-> ev, dispatched |-> TRUE, ok |-> m.ok, wire |-> m.wire,
           conn0 |-> conn, conn1 |-> m.conn, methods |-> m.methods])
    /\ chan' = Tail(chan)
    /\ UNCHANGED loop_pc

\* Sway::apply_event(event)
CallSway ==
    /\ loop_pc = "running"
    /\ backend = Some("Sway")
    /\ chan # <<>>
    /\ \E fails \in Outcomes(1..MaxOps, MaxFaults - faults) :
       \E rejects \in Refusals(1..MaxOps) :
          LET m == SwayApplyEvent([Machine(fails) EXCEPT !.rejects = rejects],
                                  Head(chan))
          IN Consumed(m) /\ Refused(m) /\ Returned_call(Head(chan), m)
    /\ UNCHANGED <<wvars, dvars, tvars, cvars, senders, seen, store, notif, nwrites, snap, sent, backend,
                   calls>>

\* Kde::apply_event(event)
CallKde ==
    /\ loop_pc = "running"
    /\ backend = Some("Kde")
    /\ chan # <<>>
    /\ \E fails \in Outcomes(1..2, MaxFaults - faults) :
          LET m == KdeApplyEvent(Machine(fails), Head(chan))
          IN Consumed(m) /\ Returned_call(Head(chan), m)
    /\ UNCHANGED <<wvars, dvars, tvars, cvars, senders, seen, store, notif, nwrites, snap, sent, backend,
                   calls>>

\* Gnome::apply_event(event)
CallGnome ==
    /\ loop_pc = "running"
    /\ backend = Some("Gnome")
    /\ chan # <<>>
    /\ \E fails \in Outcomes(1..2, MaxFaults - faults) :
          LET m == GnomeApplyEvent(Machine(fails), Head(chan))
          IN Consumed(m) /\ Returned_call(Head(chan), m)
    /\ UNCHANGED <<wvars, dvars, tvars, cvars, senders, seen, store, notif, nwrites, snap, sent, backend,
                   calls>>

\* Hyprland::apply_event(event)
CallHyprland ==
    /\ loop_pc = "running"
    /\ backend = Some("Hyprland")
    /\ chan # <<>>
    /\ \E fails \in Outcomes(1..MaxOps, MaxFaults - faults) :
          LET m == HyprlandApplyEvent(Machine(fails), Head(chan))
          IN Consumed(m) /\ Returned_call(Head(chan), m)
    /\ UNCHANGED <<wvars, dvars, tvars, cvars, senders, seen, store, notif, nwrites, snap, sent, backend,
                   calls>>

\* Niri::apply_event(event): a todo!() unwinds out of the call
CallNiri ==
    /\ loop_pc = "running"
    /\ backend = Some("Niri")
    /\ chan # <<>>
    /\ Head(chan).dev # "Action"
    /\ LET m == NiriApplyEvent(Machine({}), Head(chan))
       IN IF m.panicked
          THEN /\ loop_pc' = "panicked"
               /\ chan' = Tail(chan)
               /\ UNCHANGED <<faults, conn, nconn, applied>>
          ELSE Returned_call(Head(chan), m)
    /\ UNCHANGED <<wvars, dvars, tvars, cvars, senders, seen, store, notif, nwrites, snap, sent, backend,
                   calls>>

\* Niri::send_action(action)
CallNiriSendAction ==
    /\ loop_pc = "running"
    /\ backend = Some("Niri")
    /\ chan # <<>>
    /\ Head(chan).dev = "Action"
    /\ \E fails \in Outcomes(1..MaxOps, MaxFaults - faults),
          reply \in {"Ok", "Err"} :
          LET m == send_action(Machine(fails), Head(chan), reply)
          IN Consumed(m) /\ Returned_call(Head(chan), m)
    /\ UNCHANGED <<wvars, dvars, tvars, cvars, senders, seen, store, notif, nwrites, snap, sent, backend,
                   calls>>

AdapterNext ==
    \/ CallSway \/ CallHyprland \/ CallNiri \/ CallNiriSendAction
    \/ CallKde \/ CallGnome

AdapterSpec == AdapterInit /\ [][AdapterNext]_vars

-----------------------------------------------------------------------------
(* LockSpec: callers on several threads enter Sway::run_command or
   Niri::send_action on one adapter; each protocol operation is a step that
   begins and a step that ends *)

Threads == {"t1", "t2"}

\* the operations of the protocol, each at its place in the function
Operations == {"connect", "send", "reconnect", "retry"}

\* the place at which the caller waits for the operation to come back
Waiting(op) ==
    CASE op = "connect" -> "connect_wait"
      [] op = "send" -> "send_wait"
      [] op = "reconnect" -> "reconnect_wait"
      [] op = "retry" -> "retry_wait"

\* a guard that is dropped before the reconnect
GuardHeld_until_reconnect(loc) ==
    loc \notin {"idle", "reconnect", Waiting("reconnect"), "retry",
                Waiting("retry")}

\* `guard` is a local of the function: the mutex stays locked until the
\* function returns
GuardHeld(loc) == loc # "idle"

\* where the function goes after an operation ended; "idle" is a return
AfterOp(adapter, op, ok) ==
    CASE op = "connect" -> IF ok THEN "send" ELSE "idle"
      [] op = "send" ->
            IF adapter = "Sway" /\ ~ok THEN "reconnect" ELSE "idle"
      [] op = "reconnect" -> IF ok THEN "retry" ELSE "idle"
      [] op = "retry" -> "idle"

LockInit ==
    /\ DiffIdle
    /\ store = <<>> /\ notif = <<>> /\ nwrites = 0 /\ snap = <<>> /\ calls = <<>>
    /\ senders = {"main", "watcher"} /\ seen = <<>>
    /\ chan = <<>> /\ sent = <<>> /\ applied = <<>> /\ loop_pc = "running"
    /\ backend \in {Some("Sway"), Some("Niri")}
    /\ conn \in {None, Some(1)}
    /\ nconn = IF conn = None THEN 0 ELSE 1
    /\ faults = 0
    /\ tpc = [t \in Threads |-> "idle"]
    /\ guard = None
    /\ inflight = {}
    /\ tleft = [t \in Threads |-> MaxThreadCalls]
    /\ CallbacksIdle
    /\ WatcherIdle

\* a caller enters run_command / send_action
ThreadCall(t) ==
    /\ tpc[t] = "idle"
    /\ tleft[t] > 0
    /\ tpc' = [tpc EXCEPT ![t] = "lock"]
    /\ tleft' = [tleft EXCEPT ![t] = @ - 1]
    /\ UNCHANGED <<wvars, dvars, lvars, cvars, guard, inflight>>

\* self.connection.lock() returns the guard once the mutex is free
ThreadLock(t) ==
    /\ tpc[t] = "lock"
    /\ guard = None
    /\ guard' = Some(t)
    /\ tpc' = [tpc EXCEPT ![t] = "check"]
    /\ UNCHANGED <<wvars, dvars, lvars, cvars, inflight, tleft>>

\* if guard.is_none()
ThreadCheck(t) ==
    /\ tpc[t] = "check"
    /\ tpc' = [tpc EXCEPT ![t] = IF conn = None THEN "connect" ELSE "send"]
    /\ UNCHANGED <<wvars, dvars, lvars, cvars, guard, inflight, tleft>>

\* Connection::new() / run_command(&cmd) is entered
ThreadBegin(t) ==
    /\ tpc[t] \in Operations
    /\ tpc' = [tpc EXCEPT ![t] = Waiting(@)]
    /\ inflight' = inflight \cup {t}
    /\ UNCHANGED <<wvars, dvars, lvars, cvars, guard, tleft>>

\* the operation comes back with Ok or with an I/O error
ThreadEnd(t) ==
    /\ tpc[t] \in {Waiting(op) : op \in Operations}
    /\ \E ok \in {TRUE} \cup (IF faults < MaxFaults THEN {FALSE} ELSE {}) :
          LET op == CHOOSE o \in Operations : Waiting(o) = tpc[t]
              next == AfterOp(Unwrap(backend), op, ok)
          IN /\ tpc' = [tpc EXCEPT ![t] = next]
             /\ faults' = IF ok THEN faults ELSE faults + 1
             /\ IF ok /\ op \in {"connect", "reconnect"}
                THEN conn' = Some(nconn + 1) /\ nconn' = nconn + 1
                ELSE UNCHANGED <<conn, nconn>>
             /\ guard' = IF GuardHeld(next) THEN guard ELSE None
    /\ inflight' = inflight \ {t}
    /\ UNCHANGED <<wvars, dvars, cvars, tleft, senders, seen, store, notif, nwrites, snap, chan, sent,
                   applied, backend, loop_pc, calls>>

LockNext ==
    \E t \in Threads :
        \/ ThreadCall(t)
        \/ ThreadLock(t)
        \/ ThreadCheck(t)
        \/ ThreadBegin(t)
        \/ ThreadEnd(t)

LockSpec == LockInit /\ [][LockNext]_vars

-----------------------------------------------------------------------------
(* Properties of the diff engine, checked under DiffSpec *)

InputDomain == domain \in {"touchpad", "mouse"}
Returned == dpc = "done"

\* the event variant that belongs to each top-level field of InputConfig
InputFields ==
    <<"state", "acceleration", "calibration", "click_method",
      "disable_while_typing", "left_handed", "middle_button_emulation",
      "rotation_angle", "scroll_config", "tap_config", "map_to_output">>
InputKinds ==
    <<"State", "Acceleration", "Calibration", "ClickMethod",
      "DisableWhileTyping", "LeftHanded", "MiddleButtonEmulation",
      "RotationAngle", "ScrollConfig", "TapConfig", "MapToOutput">>
XkbFields ==
    <<"rules", "model", "layout", "variant", "options", "repeat_delay",
      "repeat_rate">>
XkbKinds ==
    <<"Rules", "Model", "Layout", "Variant", "Options", "RepeatDelay",
      "RepeatRate">>

\* old.f != new.f, with the PartialEq of the field's type
InputFieldNe(f, o, n) ==
    CASE f = "acceleration" -> ~OptAccelEq(o.acceleration, n.acceleration)
      [] f = "calibration" -> ~OptMatrixEq(o.calibration, n.calibration)
      [] f = "scroll_config" -> ~OptScrollEq(o.scroll_config, n.scroll_config)
      [] OTHER -> o[f] # n[f]

DevOf(d) ==
    CASE d = "touchpad" -> "TouchPad"
      [] d = "mouse" -> "Mouse"
      [] OTHER -> "Keyboard"

At(seq, kind) == {j \in DOMAIN seq : seq[j].kind = kind}

\* exactly one event of variant kind, carrying val, if differs; none otherwise
OneEventIff(differs, kind, val) ==
    /\ Cardinality(At(out, kind)) = (IF differs THEN 1 ELSE 0)
    /\ \A j \in At(out, kind) : out[j].val = val /\ out[j].dev = DevOf(domain)

\* C1: diffing a configuration value against itself returns no event, in
\* every domain.
C1_SelfDiffEmpty ==
    (Returned /\ old = new) => out = <<>>

\* C2: for every top-level field the diff holds exactly one event of the
\* field's variant if the field differs between old and new and none if it
\* does not, and that event carries the new value.
C2_OneEventPerChangedField ==
    Returned =>
        /\ InputDomain =>
            \A i \in DOMAIN InputFields :
                OneEventIff(InputFieldNe(InputFields[i], old, new),
                            InputKinds[i], new[InputFields[i]])
        /\ domain = "xkb" =>
            \A i \in DOMAIN XkbFields :
                OneEventIff(old[XkbFields[i]] # new[XkbFields[i]],
                            XkbKinds[i], new[XkbFields[i]])
        /\ domain = "keyboard" =>
            OneEventIff(old.numlock_state # new.numlock_state,
                        "NumLock", new.numlock_state)

C2_Witness ==
    /\ Returned /\ domain = "mouse"
    /\ old.left_handed = Some(FALSE) /\ new.left_handed = Some(TRUE)
    /\ old.state = new.state
    /\ \E j \in DOMAIN out : out[j] = MouseEvent("LeftHanded", Some(TRUE))

ScrollSubKinds == {"ScrollMethod", "NaturalScroll", "ScrollButton", "ScrollFactor"}
TapSubKinds == {"TapEnabled", "TapButtonMap", "TapDrag", "TapDragLock"}

\* the coarse event is there, and every sub-field event comes after it
CoarseFirst(coarse, subs) ==
    \A j \in DOMAIN out :
        out[j].kind \in subs =>
            /\ \E i \in 1..(j - 1) : out[i].kind = coarse
            /\ \A i \in At(out, coarse) : i < j

\* C3: whenever scroll_config or tap_config differs, its coarse event comes
\* before every one of its sub-field events, and no sub-field event is
\* emitted without its coarse event before it.
C3_CoarseBeforeSubFields ==
    (Returned /\ InputDomain) =>
        /\ InputFieldNe("scroll_config", old, new) => At(out, "ScrollConfig") # {}
        /\ InputFieldNe("tap_config", old, new) => At(out, "TapConfig") # {}
        /\ CoarseFirst("ScrollConfig", ScrollSubKinds)
        /\ CoarseFirst("TapConfig", TapSubKinds)

C3_Witness ==
    /\ Returned /\ domain = "touchpad"
    /\ \E i, j, k \in DOMAIN out :
        /\ i < j /\ j < k
        /\ out[i].kind = "TapConfig"
        /\ out[j].kind = "TapEnabled"
        /\ out[k].kind = "TapDragLock"
    /\ \E i, j \in DOMAIN out :
        i < j /\ out[i].kind = "ScrollConfig" /\ out[j].kind = "ScrollFactor"

\* the sub-field event for inner field f of a composite follows the coarse one
SubEventAfterCoarse(coarse, kind, val) ==
    \E i, j \in DOMAIN out :
        i < j /\ out[i].kind = coarse /\ out[j].kind = kind /\ out[j].val = val

\* C4: whenever a composite differs, the touchpad diff emits, after the
\* coarse event, one sub-field event for each inner field that differs
\* between the old and the new composite, also when the old composite is
\* absent and the new one is present (every inner field then differs).
C4_SubFieldPerDifferingInner ==
    (Returned /\ domain = "touchpad") =>
        /\ (IsSome(new.scroll_config) /\ InputFieldNe("scroll_config", old, new)) =>
            LET ns == Unwrap(new.scroll_config)
                absent == ~IsSome(old.scroll_config)
            IN /\ (absent \/ old.scroll_config[1].method # ns.method)
                    => SubEventAfterCoarse("ScrollConfig", "ScrollMethod", ns.method)
               /\ (absent \/ old.scroll_config[1].natural_scroll # ns.natural_scroll)
                    => SubEventAfterCoarse("ScrollConfig", "NaturalScroll", ns.natural_scroll)
               /\ (absent \/ old.scroll_config[1].scroll_button # ns.scroll_button)
                    => SubEventAfterCoarse("ScrollConfig", "ScrollButton", ns.scroll_button)
               /\ (absent \/ ~OptFloatEq(old.scroll_config[1].scroll_factor, ns.scroll_factor))
                    => SubEventAfterCoarse("ScrollConfig", "ScrollFactor", ns.scroll_factor)
        /\ (IsSome(new.tap_config) /\ old.tap_config # new.tap_config) =>
            LET nt == Unwrap(new.tap_config)
                absent == ~IsSome(old.tap_config)
            IN /\ (absent \/ old.tap_config[1].enabled # nt.enabled)
                    => SubEventAfterCoarse("TapConfig", "TapEnabled", nt.enabled)
               /\ (absent \/ old.tap_config[1].button_map # nt.button_map)
                    => SubEventAfterCoarse("TapConfig", "TapButtonMap", nt.button_map)
               /\ (absent \/ old.tap_config[1].drag # nt.drag)
                    => SubEventAfterCoarse("TapConfig", "TapDrag", nt.drag)
               /\ (absent \/ old.tap_config[1].drag_lock # nt.drag_lock)
                    => SubEventAfterCoarse("TapConfig", "TapDragLock", nt.drag_lock)

\* the optional boolean and numeric fields, by the variant of their event
OptScalarKinds ==
    {"DisableWhileTyping", "LeftHanded", "MiddleButtonEmulation",
     "RotationAngle", "NaturalScroll", "ScrollFactor", "ScrollButton"}

InnerScroll(c, f) ==
    IF IsSome(c.scroll_config) THEN c.scroll_config[1][f] ELSE None

\* the value of such a field in configuration c (None when its composite is)
OptScalar(c, k) ==
    CASE k = "DisableWhileTyping" -> c.disable_while_typing
      [] k = "LeftHanded" -> c.left_handed
      [] k = "MiddleButtonEmulation" -> c.middle_button_emulation
      [] k = "RotationAngle" -> c.rotation_angle
      [] k = "NaturalScroll" -> InnerScroll(c, "natural_scroll")
      [] k = "ScrollFactor" -> InnerScroll(c, "scroll_factor")
      [] k = "ScrollButton" -> InnerScroll(c, "scroll_button")

\* C5 as stated: no event is emitted for an optional boolean or numeric
\* field whose value in the new snapshot is None; every such event carries
\* Some(value).
C5_NoEventForNone ==
    (Returned /\ InputDomain) =>
        \A j \in DOMAIN out :
            out[j].kind \in OptScalarKinds => IsSome(out[j].val)

\* C5 as amended: an event for an optional boolean or numeric field always
\* carries the new snapshot's value; none is emitted when the field is None
\* in both snapshots; when the field is Some in old and None in new (its
\* composite, if any, being present in new) one event carrying None is
\* emitted.
C5_NoneEmittedOnlyOnClear ==
    (Returned /\ InputDomain) =>
        \A k \in OptScalarKinds :
            /\ \A j \in At(out, k) : out[j].val = OptScalar(new, k)
            /\ (OptScalar(new, k) = None /\ OptScalar(old, k) = None)
                    => At(out, k) = {}
            /\ (/\ OptScalar(new, k) = None
                /\ IsSome(OptScalar(old, k))
                /\ k \in ScrollSubKinds => IsSome(new.scroll_config))
                    => \E j \in At(out, k) : out[j].val = None

C5_Witness ==
    /\ Returned /\ domain = "touchpad"
    /\ old.disable_while_typing = Some(TRUE)
    /\ new.disable_while_typing = None
    /\ \E j \in DOMAIN out : out[j] = TouchpadEvent("DisableWhileTyping", None)

-----------------------------------------------------------------------------
(* Properties of the watcher, the channel and the consumer loop, checked
   under Spec *)

Events(log) == [i \in DOMAIN log |-> log[i].ev]

\* every event produced so far, in the order the loop has received or will
\* receive it
Delivery == Events(applied) \o chan

Sends(wire) == {i \in DOMAIN wire : wire[i].op = "send"}

\* n is o with nothing but the tap-enabled flag changed
TapToggleOnly(o, n) ==
    /\ IsSome(o.tap_config) /\ IsSome(n.tap_config)
    /\ o.tap_config[1].enabled # n.tap_config[1].enabled
    /\ InputConfigEq(n, [o EXCEPT !.tap_config[1].enabled =
                                     n.tap_config[1].enabled])

\* C7: when the touchpad configuration read differs from the snapshot in the
\* tap-enabled flag alone, the events produced are exactly the coarse
\* TapConfig(Some(new tap configuration)) followed by TapEnabled(new flag),
\* and the consumer loop receives them in that order.
C7_TapToggleSequence ==
    \A c \in DOMAIN calls :
        (/\ calls[c].key = "input_touchpad"
         /\ IsSome(calls[c].old)
         /\ TapToggleOnly(Unwrap(calls[c].old), calls[c].new)) =>
            /\ calls[c].n_events = 2
            /\ Len(Delivery) >= calls[c].at + 2
            /\ Delivery[calls[c].at + 1] =
                    TouchpadEvent("TapConfig", calls[c].new.tap_config)
            /\ Delivery[calls[c].at + 2] =
                    TouchpadEvent("TapEnabled", calls[c].new.tap_config[1].enabled)

C7_Witness ==
    /\ backend = Some("Sway")
    /\ \E c \in DOMAIN calls :
        /\ calls[c].old = Some(TpBase) /\ calls[c].new = TpTapOff
        /\ Len(applied) >= calls[c].at + 2
        /\ applied[calls[c].at + 1].ev = TouchpadEvent("TapConfig", Some(TpTapOff.tap_config[1]))
        /\ Cardinality(Sends(applied[calls[c].at + 1].wire)) = 3
        /\ applied[calls[c].at + 2].ev = TouchpadEvent("TapEnabled", FALSE)
        /\ applied[calls[c].at + 2].wire =
              <<[op |-> "send",
                 cmd |-> Some(SwayCmd("type:touchpad", "tap", "disabled")),
                 res |-> "ok"]>>

\* C8: the events the loop has received, followed by those still in the
\* channel, are exactly the events produced, in production order: none is
\* dropped, duplicated, merged or reordered; and the events of each diff
\* stand in it in the diff's emission order.
C8_AppliedInProductionOrder ==
    /\ Delivery = sent
    /\ \A c \in DOMAIN calls :
        /\ calls[c].at + calls[c].n_events <= Len(Delivery)
        /\ IsSome(calls[c].old) =>
             SubSeq(Delivery, calls[c].at + 1, calls[c].at + calls[c].n_events)
                = DiffOf(calls[c].key, Unwrap(calls[c].old), calls[c].new)
        /\ c > 1 => calls[c].at = calls[c - 1].at + calls[c - 1].n_events

C8_Witness ==
    /\ chan # <<>>
    /\ \E c, d \in DOMAIN calls :
        /\ c < d
        /\ calls[c].n_events >= 2 /\ calls[d].n_events >= 2
        /\ Len(applied) > calls[d].at

\* C9: an event whose application failed leaves the loop running, and every
\* event produced after it is dispatched in its turn.
C9_FailureDoesNotStopLoop ==
    \A i \in DOMAIN applied :
        ~applied[i].ok =>
            /\ loop_pc = "running"
            /\ \A j \in DOMAIN applied :
                 j > i => applied[j].dispatched /\ applied[j].ev = sent[j]
            /\ Len(applied) + Len(chan) = Len(sent)

C9_Witness ==
    \E i, j \in DOMAIN applied :
        /\ i < j
        /\ ~applied[i].ok
        /\ applied[j].ok /\ Sends(applied[j].wire) # {}

\* the capability methods `impl Input for Sway` leaves to the trait
SwayUnimplemented ==
    ({"TouchPad"} \X {"State", "Calibration", "RotationAngle", "TapButtonMap",
                      "MapToOutput"})
    \cup ({"Mouse"} \X {"State", "Calibration", "RotationAngle", "TapConfig",
                        "MapToOutput"})

\* C10: an event whose capability method Sway does not override is applied
\* with success, without any transport operation, and leaves the connection
\* as it was.
C10_DefaultMethodIsNoOp ==
    \A i \in DOMAIN applied :
        (/\ applied[i].dispatched
         /\ <<applied[i].ev.dev, applied[i].ev.kind>> \in SwayUnimplemented) =>
            /\ applied[i].ok
            /\ applied[i].wire = <<>>
            /\ applied[i].conn1 = applied[i].conn0

C10_Witness ==
    /\ faults < MaxFaults
    /\ \E i, j \in DOMAIN applied :
        /\ applied[i].dispatched /\ applied[i].ev.kind = "TapButtonMap"
        /\ applied[i].ev.dev = "TouchPad"
        /\ applied[j].dispatched /\ applied[j].ev.kind = "MapToOutput"
        /\ applied[j].ev.dev = "Mouse"

-----------------------------------------------------------------------------
(* Properties of the adapters, checked under AdapterSpec *)

\* the calls made so far that came back with Ok or Err
CallsMade == Len(sent) - Len(chan)

\* C11: every call of an adapter's apply_event returns Ok or Err: no event
\* makes the call panic, so every call made has left its result behind
C11_ApplyEventAlwaysReturns ==
    /\ loop_pc = "running"
    /\ Len(applied) = CallsMade

\* the results of the calls made on the Sway adapter
SwayCalls == IF backend = Some("Sway") THEN Range(applied) ELSE {}

\* two sends carry the same command text
SameCommand(a, b) ==
    /\ a.op = "send" /\ b.op = "send"
    /\ Unwrap(a.cmd).target = Unwrap(b.cmd).target
    /\ Unwrap(a.cmd).setting = Unwrap(b.cmd).setting
    /\ Unwrap(a.cmd).value = Unwrap(b.cmd).value

\* the positions of the wire at which the command sent at position k was sent
SendsOf(w, k) == {j \in DOMAIN w : SameCommand(w[j], w[k])}

\* the connects that follow a send of that command: its reconnects
ReconnectsOf(w, k) ==
    {j \in DOMAIN w : w[j].op = "connect" /\ (j - 1) \in SendsOf(w, k)}

\* the first send of its command failed at position k of the wire
FirstSendFailed(w, k) ==
    /\ w[k].op = "send"
    /\ w[k].res = "failed"
    /\ \A j \in 1..(k - 1) : ~SameCommand(w[j], w[k])

\* C12: in a call of Sway::run_command a transport failure of the command is
\* followed by exactly one reconnect attempt and, if that connected, by one
\* retry of the same command, after which the call returns; no command is
\* sent more than twice and none has more than one reconnect
C12_OneReconnectOneRetry ==
    \A e \in SwayCalls :
        /\ \A k \in DOMAIN e.wire :
              e.wire[k].op = "send" =>
                 /\ Cardinality(SendsOf(e.wire, k)) <= 2
                 /\ Cardinality(ReconnectsOf(e.wire, k)) <= 1
        /\ \A k \in DOMAIN e.wire :
              /\ e.wire[k].op = "connect" =>
                    \/ k = 1 /\ e.conn0 = None
                    \/ k > 1 /\ FirstSendFailed(e.wire, k - 1)
              /\ FirstSendFailed(e.wire, k) =>
                    /\ (k + 1) \in DOMAIN e.wire
                    /\ e.wire[k + 1].op = "connect"
                    /\ IF e.wire[k + 1].res = "ok"
                       THEN /\ (k + 2) \in DOMAIN e.wire
                            /\ SameCommand(e.wire[k + 2], e.wire[k])
                            /\ e.wire[k + 2].res = "failed" => Len(e.wire) = k + 2
                       ELSE Len(e.wire) = k + 1

\* a command failed, the adapter reconnected and the retry failed as well
C12_Witness ==
    \E e \in SwayCalls : \E k \in DOMAIN e.wire :
        /\ FirstSendFailed(e.wire, k)
        /\ Len(e.wire) = k + 2
        /\ e.wire[k + 2].op = "send"
        /\ e.wire[k + 2].res = "failed"

\* the results of the send_action calls made on the Niri adapter
NiriCalls == IF backend = Some("Niri") THEN Range(applied) ELSE {}

\* C14: in the Niri adapter a request whose send fails at the transport is
\* followed by one reconnect attempt and, if that connected, by one retry of
\* the same request, before the error reaches the caller
C14_NiriReconnectsAndRetries ==
    \A e \in NiriCalls :
        \A k \in DOMAIN e.wire :
            FirstSendFailed(e.wire, k) =>
                /\ (k + 1) \in DOMAIN e.wire
                /\ e.wire[k + 1].op = "connect"
                /\ e.wire[k + 1].res = "ok" =>
                      /\ (k + 2) \in DOMAIN e.wire
                      /\ SameCommand(e.wire[k + 2], e.wire[k])

\* the calls of keyboard_options(Some(s)) made, as positions of `applied`
OptionsCalls ==
    {i \in DOMAIN applied :
        /\ applied[i].ev.dev = "Keyboard"
        /\ applied[i].ev.kind = "Options"
        /\ IsSome(applied[i].ev.val)}

\* the value the call sent at position k of its wire
ValueSent(i, k) == Unwrap(applied[i].wire[k].cmd).value

\* no comma or whitespace at either end, no empty or blank-edged segment
CleanList(v) ==
    \A k \in DOMAIN v :
        /\ (k = 1 \/ k = Len(v)) => v[k] \notin {","} \cup Whitespace
        /\ v[k] = "," => /\ v[k - 1] \notin {","} \cup Whitespace
                         /\ v[k + 1] \notin {","} \cup Whitespace

\* C17: the options value Sway sends is normalize_kb_options of the string
\* it was given; normalizing it again changes nothing; it has no leading or
\* trailing comma or whitespace and no empty segment; and " ,us, ,de,"
\* goes out as "us,de"
C17_NormalizeIdempotent ==
    \A i \in OptionsCalls :
        \A k \in Sends(applied[i].wire) :
            backend = Some("Sway") =>
                /\ ValueSent(i, k) =
                      normalize_kb_options(Unwrap(applied[i].ev.val))
                /\ normalize_kb_options(ValueSent(i, k)) = ValueSent(i, k)
                /\ CleanList(ValueSent(i, k))
                /\ Unwrap(applied[i].ev.val) = OptionsExample =>
                      ValueSent(i, k) = <<"u", "s", ",", "d", "e">>

\* Sway was given "u,," or ",,u" or " ,us, ,de," and sent a shorter list
C17_Witness ==
    \E i \in OptionsCalls :
        \E k \in Sends(applied[i].wire) :
            /\ backend = Some("Sway")
            /\ Unwrap(applied[i].ev.val) \in
                  {<<"u", ",", ",">>, <<",", ",", "u">>, OptionsExample}
            /\ applied[i].ok
            /\ Len(ValueSent(i, k)) < Len(Unwrap(applied[i].ev.val))
            /\ Len(ValueSent(i, k)) > 0

\* C18: for every options string the value Hyprland sends for
\* input:kb_options is the value Sway sends for xkb_options: what either
\* adapter transmitted is what the other adapter's cleaning makes of the
\* same string
C18_SameOptionsOnBothAdapters ==
    \A i \in OptionsCalls :
        \A k \in DOMAIN applied[i].wire :
            /\ (backend = Some("Hyprland") /\ applied[i].wire[k].op = "keyword") =>
                  /\ Unwrap(applied[i].wire[k].cmd).setting = "input:kb_options"
                  /\ ValueSent(i, k) =
                        normalize_kb_options(Unwrap(applied[i].ev.val))
            /\ (backend = Some("Sway") /\ applied[i].wire[k].op = "send") =>
                  /\ Unwrap(applied[i].wire[k].cmd).setting = "xkb_options"
                  /\ ValueSent(i, k) =
                        hypr_clean_options(Unwrap(applied[i].ev.val))

\* Hyprland was given " ,us, ,de," and sent "us,de"
C18_Witness ==
    \E i \in OptionsCalls :
        /\ backend = Some("Hyprland")
        /\ applied[i].ev.val = Some(OptionsExample)
        /\ applied[i].ok
        /\ Len(applied[i].wire) = 1
        /\ ValueSent(i, 1) = <<"u", "s", ",", "d", "e">>

\* the calls of touchpad_acceleration / mouse_acceleration with Some(accel)
AccelCalls ==
    {i \in DOMAIN applied :
        applied[i].ev.kind = "Acceleration" /\ IsSome(applied[i].ev.val)}

\* the speed the call was given
SpeedGiven(i) == Unwrap(applied[i].ev.val).speed

\* the positions of the wire that carry the given setting
Carrying(w, setting) ==
    {k \in DOMAIN w : w[k].cmd # None /\ Unwrap(w[k].cmd).setting = setting}

InRange(x) == ~x.nan /\ x.v >= -10 /\ x.v <= 10

\* C19: every pointer_accel value Sway sends lies in [-1.0, 1.0]: a speed
\* below -1.0 goes out as -1.0, a speed above 1.0 as 1.0, a speed inside the
\* range unchanged; the call sends the command whatever the speed, and fails
\* only if a transport operation failed
C19_SwaySpeedClamped ==
    \A i \in AccelCalls :
        backend = Some("Sway") =>
            /\ \A k \in Carrying(applied[i].wire, "pointer_accel") :
                  /\ InRange(ValueSent(i, k))
                  /\ (~SpeedGiven(i).nan /\ SpeedGiven(i).v < -10) =>
                        ValueSent(i, k) = F(-10)
                  /\ (~SpeedGiven(i).nan /\ SpeedGiven(i).v > 10) =>
                        ValueSent(i, k) = F(10)
                  /\ InRange(SpeedGiven(i)) => ValueSent(i, k) = SpeedGiven(i)
            /\ \/ Carrying(applied[i].wire, "pointer_accel") # {}
               \/ applied[i].wire[Len(applied[i].wire)].op = "connect"
            /\ ~applied[i].ok =>
                  \E k \in DOMAIN applied[i].wire :
                      applied[i].wire[k].res = "failed"

\* Sway was given the speed 5.0 and sent 1.0, with success
C19_Witness ==
    \E i \in AccelCalls :
        /\ backend = Some("Sway")
        /\ SpeedGiven(i) = F(50)
        /\ applied[i].ok
        /\ \E k \in Carrying(applied[i].wire, "pointer_accel") :
              ValueSent(i, k) = F(10) /\ applied[i].wire[k].res = "ok"

\* C20: every speed Hyprland sends as input:sensitivity has been clamped to
\* [-1.0, 1.0]: an out-of-range speed is neither sent as it is nor rejected
C20_HyprlandSpeedClamped ==
    \A i \in AccelCalls :
        backend = Some("Hyprland") =>
            /\ Carrying(applied[i].wire, "input:sensitivity") # {}
            /\ \A k \in Carrying(applied[i].wire, "input:sensitivity") :
                  InRange(ValueSent(i, k))

-----------------------------------------------------------------------------
(* Properties of the connection mutex, checked under LockSpec *)

\* C16: at most one protocol operation (connect, send, reconnect, retry) is
\* under way on the adapter's connection at any time: a caller inside
\* run_command or send_action holds the mutex from before the connection
\* check until its last operation, reconnect and retry included, has ended
C16_OneOperationInFlight ==
    /\ Cardinality(inflight) <= 1
    /\ \A t \in DOMAIN tpc :
          tpc[t] \notin {"idle", "lock"} => guard = Some(t)
    /\ \A t \in inflight : guard = Some(t)

\* one caller's retry is under way while the other waits for the mutex
C16_Witness ==
    \E t, u \in DOMAIN tpc :
        /\ tpc[t] = Waiting("retry")
        /\ t \in inflight
        /\ tpc[u] = "lock"

-----------------------------------------------------------------------------
(* Properties of reconnect and retry in the running program, checked under
   Spec *)

\* after the failed send at position k the reconnect and the retry succeeded
Recovered(w, k) ==
    /\ (k + 2) \in DOMAIN w
    /\ w[k + 1].res = "ok"
    /\ w[k + 2].res = "ok"

\* C13: when a Sway command fails once at the transport, run_command reports
\* success if the reconnect and the retry both succeed (the method goes on and
\* the event is applied with success unless a later command fails), and
\* reports the failure if the reconnect or the retry fails (the event is
\* applied with an error right there); after such an error the loop is still
\* running and the next event delivered is the next one produced
C13_RetryDecidesResult ==
    \A i \in DOMAIN applied :
        \A k \in DOMAIN applied[i].wire :
            FirstSendFailed(applied[i].wire, k) =>
                IF Recovered(applied[i].wire, k)
                THEN IF Len(applied[i].wire) = k + 2
                     THEN applied[i].ok
                     ELSE /\ applied[i].wire[k + 3].op = "send"
                          /\ ~SameCommand(applied[i].wire[k + 3],
                                          applied[i].wire[k])
                ELSE /\ ~applied[i].ok
                     /\ applied[i].wire[Len(applied[i].wire)].res = "failed"
                     /\ Len(applied[i].wire) \in {k + 1, k + 2}
                     /\ loop_pc = "running"
                     /\ Len(applied) + Len(chan) = Len(sent)
                     /\ i < Len(applied) => applied[i + 1].ev = sent[i + 1]

\* a command failed and was not recovered; the loop applied the next event
\* and its commands went through
C13_Witness ==
    \E i \in DOMAIN applied :
        /\ i > 1
        /\ \E k \in DOMAIN applied[i - 1].wire :
              /\ FirstSendFailed(applied[i - 1].wire, k)
              /\ ~Recovered(applied[i - 1].wire, k)
        /\ applied[i].ok
        /\ Sends(applied[i].wire) # {}

\* the call recorded in e returned a transport error with its retry exhausted
RetryExhausted(e) ==
    /\ ~e.ok
    /\ \E k \in DOMAIN e.wire :
          FirstSendFailed(e.wire, k) /\ ~Recovered(e.wire, k)

\* C15: after a Sway call has failed with its retry exhausted the stored
\* connection is empty, and the next call that talks to sway connects first:
\* it never sends on the connection the failed call left behind
C15_FailedCallLeavesUnconnected ==
    \A i \in DOMAIN applied :
        RetryExhausted(applied[i]) =>
            /\ applied[i].conn1 = None
            /\ \A j \in DOMAIN applied :
                  (j = i + 1 /\ applied[j].wire # <<>>) =>
                      /\ applied[j].conn0 = None
                      /\ applied[j].wire[1].op = "connect"

-----------------------------------------------------------------------------
(* Dispatch and settings-store properties, checked under AdapterSpec *)

\* C21: for every backend and every event, apply_event invokes exactly one
\* capability method, the one of the event's variant: no event is accepted
\* and then dropped without a capability method being called
C21_OneMethodPerEvent ==
    \A i \in DOMAIN applied :
        applied[i].ev.dev \in {"Keyboard", "TouchPad", "Mouse"} =>
            applied[i].methods = << <<applied[i].ev.dev, applied[i].ev.kind>> >>

\* C22: every GNOME capability call that writes a settings key forces the
\* backing store to synchronise before it returns
C22_GnomeWriteIsSynced ==
    backend = Some("Gnome") =>
        \A i \in DOMAIN applied :
            \A k \in DOMAIN applied[i].wire :
                (applied[i].wire[k].op = "set" /\ applied[i].wire[k].res = "ok") =>
                    \E j \in DOMAIN applied[i].wire :
                        j > k /\ applied[i].wire[j].op = "sync"

\* C23: every KDE capability call that returns success has written the key
\* and then invoked the compositor's reconfigure call, in every state of the
\* adapter, one whose D-Bus connection was never established included
C23_KdeWriteThenReconfigure ==
    backend = Some("Kde") =>
        \A i \in DOMAIN applied :
            (applied[i].ok /\ applied[i].methods # <<>>
             /\ KdeWrites(applied[i].ev.dev, applied[i].ev.kind,
                          applied[i].ev.val) # <<>>) =>
                /\ Len(applied[i].wire) = 2
                /\ applied[i].wire[1].op = "write" /\ applied[i].wire[1].res = "ok"
                /\ applied[i].wire[2].op = "reconfigure"
                /\ applied[i].wire[2].res = "ok"

-----------------------------------------------------------------------------
(* Shutdown, checked under ShutdownSpec *)

\* C24: once the producer side is dropped (the watcher and its callback are
\* gone) the consumer loop eventually observes the channel as disconnected
\* and exits
C24_LoopExitsAfterProducerDropped ==
    ("watcher" \notin senders) ~> (loop_pc = "exited")

-----------------------------------------------------------------------------
(* The loop without a backend and the watcher's snapshots, checked under Spec *)

\* C25: when init_compositor returned None every received event is only
\* logged: no capability method is called, no protocol operation is made, no
\* connection is opened, and the loop goes on receiving
C25_NoBackendOnlyLogs ==
    backend = None =>
        /\ \A i \in DOMAIN applied :
              /\ ~applied[i].dispatched
              /\ applied[i].methods = <<>>
              /\ applied[i].wire = <<>>
        /\ conn = None /\ nconn = 0
        /\ loop_pc = "running"
        /\ Len(applied) = Len(sent) - Len(chan)

\* two events were received without a backend and the channel is drained
C25_Witness ==
    /\ backend = None
    /\ Len(applied) >= 2
    /\ chan = <<>>

\* the events a callback puts on the channel when the reads of the keys in
\* readok succeed and the other reads fail
RECURSIVE EventsFor(_, _)
EventsFor(keys, readok) ==
    IF keys = <<>> THEN <<>>
    ELSE (IF Head(keys) \in readok /\ IsSome(snap[Head(keys)])
          THEN DiffOf(Head(keys), Unwrap(snap[Head(keys)]), store[Head(keys)])
          ELSE <<>>)
         \o EventsFor(Tail(keys), readok)

\* C26: a callback replaces a domain's snapshot only after a successful read
\* of its changed key, and then with the whole value read; a key whose read
\* failed emits no event and keeps its snapshot while the remaining keys are
\* still processed; an unknown key changes no snapshot and emits no event
C26_SnapshotFollowsSuccessfulReads ==
    [][(notif # <<>> /\ notif' = Tail(notif)) =>
         LET reported == Range(Head(notif)) \cap Keys
         IN \E readok \in SUBSET reported :
              /\ Cardinality(reported \ readok) = faults' - faults
              /\ snap' = [k \in Keys |-> IF k \in readok THEN Some(store[k])
                                         ELSE snap[k]]
              /\ sent' = sent \o EventsFor(Head(notif), readok)]_vars

\* all notifications are delivered, one domain's snapshot is behind the store
\* because its read failed, and another read did succeed
C26_Witness ==
    /\ notif = <<>>
    /\ calls # <<>>
    /\ \E k \in Keys : IsSome(snap[k]) /\ snap[k] # Some(store[k])

\* C27: a notification whose keys all hold the value they held at their
\* previous notification (a rewrite with identical content) puts no event on
\* the channel, whatever notifications came before, failed reads included
C27_IdenticalRewriteIsSilent ==
    [][(/\ notif # <<>> /\ notif' = Tail(notif)
        /\ \A k \in Range(Head(notif)) \cap Keys : seen[k] = Some(store[k]))
            => sent' = sent]_vars

-----------------------------------------------------------------------------
(* The order of a diff's events, checked under DiffSpec *)

\* the order in which from_touchpad looks at the fields
TouchpadOrder ==
    <<"State", "Acceleration", "Calibration", "ClickMethod",
      "DisableWhileTyping", "LeftHanded", "MiddleButtonEmulation",
      "RotationAngle", "ScrollConfig", "ScrollMethod", "NaturalScroll",
      "ScrollButton", "ScrollFactor", "TapConfig", "TapEnabled",
      "TapButtonMap", "TapDrag", "TapDragLock", "MapToOutput">>

\* the order in which XkbConfigDiff::from looks at the fields
XkbOrder ==
    <<"Rules", "Model", "Layout", "Variant", "Options", "RepeatDelay",
      "RepeatRate">>

\* where a kind stands in an order of distinct kinds
PositionIn(order, kind) == CHOOSE r \in DOMAIN order : order[r] = kind

\* events is a subsequence of order: every kind is one of the order, and
\* each event stands later in the order than the event before it
SubsequenceOf(events, order) ==
    /\ \A i \in DOMAIN events : \E r \in DOMAIN order : order[r] = events[i].kind
    /\ \A i \in DOMAIN events :
          i > 1 => PositionIn(order, events[i - 1].kind)
                      < PositionIn(order, events[i].kind)

\* C28: the events of a touchpad diff stand in the fixed field order (state,
\* acceleration, ..., scroll_config and its sub-fields, tap_config and its
\* sub-fields, map_to_output) and the events of a keyboard diff in the order
\* rules, model, layout, variant, options, repeat_delay, repeat_rate: for
\* every (old, new) the result is a subsequence of that order
C28_EventsInFieldOrder ==
    dpc = "done" =>
        /\ domain = "touchpad" => SubsequenceOf(out, TouchpadOrder)
        /\ domain = "xkb" => SubsequenceOf(out, XkbOrder)

\* a touchpad diff in which every field and every sub-field changed
C28_Witness ==
    /\ dpc = "done"
    /\ domain = "touchpad"
    /\ Len(out) = Len(TouchpadOrder)

-----------------------------------------------------------------------------
(* Acceleration and repeated events, checked under AdapterSpec *)

\* the positions of the wire that carry the speed / the profile of an
\* acceleration call
SpeedSent(w) == Carrying(w, "pointer_accel") \cup Carrying(w, "input:sensitivity")
ProfileSent(w) ==
    Carrying(w, "accel_profile") \cup Carrying(w, "input:accel_profile")

\* C29: in the acceleration handlers of Sway and Hyprland the accel-profile
\* setting goes out only after the speed setting went out successfully in the
\* same call (its transport returned a reply): the profile never precedes the
\* speed, and if the speed fails the profile is not sent and the call returns
\* the error
C29_ProfileAfterSpeed ==
    backend \in {Some("Sway"), Some("Hyprland")} =>
        \A i \in AccelCalls :
            LET w == applied[i].wire
            IN /\ \A p \in ProfileSent(w) :
                    /\ \A s \in SpeedSent(w) : s < p
                    /\ \E s \in SpeedSent(w) : w[s].res # "failed"
               /\ (\A s \in SpeedSent(w) : w[s].res = "failed") =>
                    /\ ProfileSent(w) = {}
                    /\ ~applied[i].ok

\* a Sway call whose speed command failed once, went through on the retry
\* and was followed by the profile command
C29_Witness ==
    /\ backend = Some("Sway")
    /\ \E i \in AccelCalls :
          /\ Cardinality(SpeedSent(applied[i].wire)) = 2
          /\ ProfileSent(applied[i].wire) # {}
          /\ applied[i].ok

\* the sway settings that take enabled / disabled (and would take toggle)
SwaySwitches ==
    {"dwt", "left_handed", "middle_emulation", "natural_scroll", "tap",
     "tap_and_drag", "drag_lock"}

\* the backend's settings after it has carried out command c: the setting
\* named takes the value given; a toggle would flip what is there
Assign(st, c) ==
    LET key == <<c.target, c.setting>>
        flipped == IF key \in DOMAIN st /\ st[key] = "enabled" THEN "disabled"
                   ELSE "enabled"
        value == IF c.target # "hyprland" /\ c.setting \in SwaySwitches
                    /\ c.value = "toggle"
                 THEN flipped ELSE c.value
    IN [k \in DOMAIN st \cup {key} |-> IF k = key THEN value ELSE st[k]]

\* the settings after the commands of a wire that went through
RECURSIVE Settle(_, _)
Settle(st, w) ==
    IF w = <<>> THEN st
    ELSE Settle(IF Head(w).op \in {"send", "keyword"} /\ Head(w).res = "ok"
                THEN Assign(st, Unwrap(Head(w).cmd)) ELSE st,
                Tail(w))

\* the backend's settings after the first n calls
RECURSIVE SettingsAfter(_)
SettingsAfter(n) ==
    IF n = 0 THEN <<>> ELSE Settle(SettingsAfter(n - 1), applied[n].wire)

\* the positions of a wire that carry a command
ProtocolCalls(w) == {k \in DOMAIN w : w[k].op \in {"send", "keyword"}}

\* every protocol operation of call i succeeded
AllSucceeded(i) ==
    /\ applied[i].ok
    /\ \A k \in DOMAIN applied[i].wire : applied[i].wire[k].res = "ok"

\* C30: applying the same event twice in a row through Sway or Hyprland, all
\* protocol calls succeeding, leaves the backend's settings as applying it
\* once does: the second call transmits as many commands as the first and
\* each sets an absolute value
C30_SecondApplicationChangesNothing ==
    (/\ backend \in {Some("Sway"), Some("Hyprland")}
     /\ Len(applied) = 2
     /\ applied[1].ev = applied[2].ev
     /\ AllSucceeded(1) /\ AllSucceeded(2)) =>
        /\ SettingsAfter(2) = SettingsAfter(1)
        /\ Cardinality(ProtocolCalls(applied[2].wire))
              = Cardinality(ProtocolCalls(applied[1].wire))

\* a tap configuration applied twice on Sway, each time with three commands
C30_Witness ==
    /\ backend = Some("Sway")
    /\ Len(applied) = 2
    /\ applied[1].ev.kind = "TapConfig" /\ applied[1].ev.dev = "TouchPad"
    /\ applied[1].ev = applied[2].ev
    /\ AllSucceeded(1) /\ AllSucceeded(2)
    /\ Cardinality(DOMAIN SettingsAfter(2)) >= 3


\* ---------------------------------------------------------------------
\* C31: snapshots are written only by the consumer loop: every step that
\* changes a snapshot is a step of the loop (it takes an event off the
\* channel), and the step of the watch callback (it takes a notification)
\* leaves every snapshot as it was.
C31_SnapshotsWrittenOnlyByLoop ==
    [][/\ (snap' # snap) => (chan # <<>> /\ Len(chan') < Len(chan))
       /\ (notif # <<>> /\ notif' = Tail(notif)) => (snap' = snap)]_vars


-----------------------------------------------------------------------------
(* CallbackSpec: the closure given to config.watch, run by two threads of
   the store, one step per lock, per call and per send *)

\* a lock() that does not wait for the holder
CanLock_always(holder) == TRUE

\* Mutex::lock returns once no other guard is alive
CanLock(holder) == holder = None

\* the store calls the closure with the keys of its oldest notification
CbStart(t) ==
    /\ callback[t].pc = "idle"
    /\ notif # <<>>
    /\ callback' = [callback EXCEPT ![t] =
                       [CbIdle EXCEPT !.pc = "lock_tx",
                                      !.overlap = \E u \in CbThreads :
                                                     callback[u].pc # "idle",
                                      !.id = nwrites - Len(notif) + 1,
                                      !.keys = Head(notif)]]
    /\ notif' = Tail(notif)
    /\ seen' = [k \in Keys |-> IF k \in Range(Head(notif)) THEN Some(store[k])
                                ELSE seen[k]]
    /\ UNCHANGED <<wvars, dvars, tvars, tx_lock, state_lock, sent_by, diffs, store,
                   nwrites, snap, chan, sent, applied, backend, conn, nconn,
                   faults, loop_pc, calls, senders>>

\* `if let Ok(sender) = tx.lock()`
CbLockTx(t) ==
    /\ callback[t].pc = "lock_tx"
    /\ CanLock(tx_lock)
    /\ tx_lock' = Some(t)
    /\ callback' = [callback EXCEPT ![t].pc = "lock_state"]
    /\ UNCHANGED <<wvars, dvars, lvars, tvars, state_lock, sent_by, diffs>>

\* `if let Ok(mut state) = state.lock()`; from() then starts from the
\* snapshots it finds
CbLockState(t) ==
    /\ callback[t].pc = "lock_state"
    /\ CanLock(state_lock)
    /\ state_lock' = Some(t)
    /\ callback' = [callback EXCEPT ![t].pc = "from", ![t].old = snap]
    /\ UNCHANGED <<wvars, dvars, lvars, tvars, tx_lock, sent_by, diffs>>

\* `let events = state.from(cfg, keys)`: reads the store, diffs against the
\* snapshots it started from and stores what it read
CbFrom(t) ==
    /\ callback[t].pc = "from"
    /\ \E readok \in SUBSET (Range(callback[t].keys) \cap Keys) :
        LET failed == (Range(callback[t].keys) \cap Keys) \ readok
            w == FromKeys([snap |-> callback[t].old, events |-> <<>>,
                           calls |-> calls],
                          callback[t].keys, readok)
        IN /\ faults + Cardinality(failed) <= MaxFaults
           /\ faults' = faults + Cardinality(failed)
           /\ snap' = [k \in Keys |-> IF k \in readok THEN w.snap[k] ELSE snap[k]]
           /\ calls' = w.calls
           /\ callback' = [callback EXCEPT ![t].pc = "send",
                                           ![t].events = w.events]
           /\ diffs' = Append(diffs, [id |-> callback[t].id,
                                      used |-> callback[t].old,
                                      before |-> snap,
                                      overlap |-> callback[t].overlap,
                                      n_events |-> Len(w.events)])
    /\ UNCHANGED <<wvars, dvars, tvars, tx_lock, state_lock, sent_by, store, notif,
                   nwrites, chan, sent, applied, backend, conn, nconn,
                   loop_pc, senders, seen>>

\* one turn of `for event in events { sender.send(event) }`
CbSend(t) ==
    /\ callback[t].pc = "send"
    /\ callback[t].events # <<>>
    /\ chan' = SendAll(chan, <<Head(callback[t].events)>>)
    /\ sent' = Append(sent, Head(callback[t].events))
    /\ sent_by' = Append(sent_by, [id |-> callback[t].id,
                                   k |-> callback[t].k + 1])
    /\ callback' = [callback EXCEPT ![t].events = Tail(@), ![t].k = @ + 1]
    /\ UNCHANGED <<wvars, dvars, tvars, tx_lock, state_lock, diffs, store, notif,
                   nwrites, snap, applied, backend, conn, nconn, faults,
                   loop_pc, calls, senders, seen>>

\* the closure returns: both guards are dropped
CbReturn(t) ==
    /\ callback[t].pc = "send"
    /\ callback[t].events = <<>>
    /\ tx_lock' = IF tx_lock = Some(t) THEN None ELSE tx_lock
    /\ state_lock' = IF state_lock = Some(t) THEN None ELSE state_lock
    /\ callback' = [callback EXCEPT ![t] = CbIdle]
    /\ UNCHANGED <<wvars, dvars, lvars, tvars, sent_by, diffs>>

CallbackNext ==
    \/ StoreWrite
    \/ \E t \in CbThreads :
          CbStart(t) \/ CbLockTx(t) \/ CbLockState(t) \/ CbFrom(t)
          \/ CbSend(t) \/ CbReturn(t)

CallbackSpec == Init /\ [][CallbackNext]_vars

\* C32: with two runs of the watch callback under way at once, the events
\* of each run stand on the channel as one block in the order of its diff
\* (an event that is the k-th of its run follows the (k-1)-th of the same
\* run directly, and a first event opens a run not seen before on the
\* channel), and each run diffs against the snapshots in place when it
\* stores its own, the ones left by the run before it.
C32_BlocksNeverInterleave ==
    /\ \A i \in DOMAIN sent_by :
          IF sent_by[i].k = 1
          THEN \A j \in 1..(i - 1) : sent_by[j].id # sent_by[i].id
          ELSE /\ i > 1
               /\ sent_by[i - 1].id = sent_by[i].id
               /\ sent_by[i - 1].k = sent_by[i].k - 1
    /\ \A d \in DOMAIN diffs :
          diffs[d].used = diffs[d].before

\* a run that started while another was under way has put its events on
\* the channel behind the other's
C32_Witness ==
    /\ \E d \in DOMAIN diffs : diffs[d].overlap /\ diffs[d].n_events >= 2
    /\ \E i, j \in DOMAIN sent_by : sent_by[i].id # sent_by[j].id
    /\ \A t \in CbThreads : callback[t].pc = "idle"


-----------------------------------------------------------------------------
(* DebugSpec: debug::run_watcher on one namespace; the store commits, the
   closure sends a Change, the loop reads each key and prints *)

\* a comparison that never finds the old value again
Unchanged_never(old_val, new_val) == FALSE

\* `Some(old) if old == &new_val`
Unchanged(old_val, new_val) == old_val = new_val

\* what the loop does with one key read as new_val: the lines it prints
\* (n numbers the reads)
DebugLines(last, key, new_val, n) ==
    IF IsSome(last) /\ Unchanged(Unwrap(last), new_val) THEN <<>>
    ELSE IF ~debug THEN <<>>
    ELSE IF IsSome(last)
         THEN <<[what |-> "changed", key |-> key, old |-> last,
                 new |-> Some(new_val), read |-> n]>>
         ELSE <<[what |-> "set", key |-> key, old |-> None,
                 new |-> Some(new_val), read |-> n]>>

\* one turn of `for key in change.keys`; a key the store does not hold, or
\* one whose read is failed, gives Err
DebugKey(w, key, readok) ==
    IF key \in readok
    THEN LET new_val == store[key]
             last == w.last[key]
             lines == DebugLines(last, key, new_val, Len(w.reads) + 1)
         IN [last |-> [w.last EXCEPT ![key] = Some(new_val)],
             printed |-> w.printed \o lines,
             reads |-> Append(w.reads, [key |-> key, ok |-> TRUE,
                                        value |-> Some(new_val)])]
    ELSE [last |-> w.last,
          printed |-> Append(w.printed,
                        [what |-> "failed", key |-> key, old |-> None,
                         new |-> None, read |-> Len(w.reads) + 1]),
          reads |-> Append(w.reads, [key |-> key, ok |-> FALSE, value |-> None])]

RECURSIVE DebugKeys(_, _, _)
DebugKeys(w, keys, readok) ==
    IF keys = <<>> THEN w
    ELSE DebugKeys(DebugKey(w, Head(keys), readok), Tail(keys), readok)

\* every key a notification may name
WatchedKeys == Keys \cup {"xkb_config"}

DebugInit ==
    /\ DiffIdle
    /\ tpc = <<>> /\ guard = None /\ inflight = {} /\ tleft = <<>>
    /\ CallbacksIdle
    /\ store = [input_touchpad |-> TpBase, input_default |-> MsBase]
    /\ notif = <<>> /\ nwrites = 0 /\ snap = <<>> /\ calls = <<>>
    /\ chan = <<>> /\ sent = <<>> /\ applied = <<>>
    /\ backend = None /\ conn = None /\ nconn = 0 /\ faults = 0
    /\ loop_pc = "running"
    /\ senders = {"main", "watcher"} /\ seen = <<>>
    /\ debug \in BOOLEAN
    /\ last_values = [k \in WatchedKeys |-> None]
    /\ printed = <<>>
    /\ reads = <<>>

\* the closure given to config.watch: sends the Change, nothing else
DebugCallback ==
    /\ notif # <<>>
    /\ chan' = Append(chan, [namespace |-> "com.system76.CosmicComp",
                             keys |-> Head(notif)])
    /\ notif' = Tail(notif)
    /\ UNCHANGED <<dvars, tvars, cvars, wvars, senders, seen, store, nwrites,
                   snap, sent, applied, backend, conn, nconn, faults, loop_pc,
                   calls>>

\* Ok(change): read every key of the change and compare it with last_values
DebugRecv ==
    /\ chan # <<>>
    /\ LET keys == Head(chan).keys
           held == Range(keys) \cap DOMAIN store
       IN \E readok \in SUBSET held :
            LET w == DebugKeys([last |-> last_values, printed |-> printed,
                                reads |-> reads], keys, readok)
            IN /\ faults + Cardinality(held \ readok) <= MaxFaults
               /\ faults' = faults + Cardinality(held \ readok)
               /\ last_values' = w.last
               /\ printed' = w.printed
               /\ reads' = w.reads
    /\ chan' = Tail(chan)
    /\ UNCHANGED <<dvars, tvars, cvars, debug, senders, seen, store, notif,
                   nwrites, snap, sent, applied, backend, conn, nconn, loop_pc,
                   calls>>

\* Err(Timeout): continue
DebugTimeout ==
    /\ chan = <<>>
    /\ UNCHANGED vars

DebugNext == StoreWrite \/ DebugCallback \/ DebugRecv \/ DebugTimeout

DebugSpec == DebugInit /\ [][DebugNext]_vars

\* the read of the same key before read n, if any
PreviousRead(n) ==
    LET before == {m \in 1..(n - 1) : reads[m].ok /\ reads[m].key = reads[n].key}
    IN IF before = {} THEN None
       ELSE reads[CHOOSE m \in before : \A x \in before : x <= m].value

\* the lines printed for read n
LinesOf(n) == {i \in DOMAIN printed : printed[i].read = n}

\* C33: with debug on, a read whose value differs from the value read for
\* that key before prints one line with that old value and the new one,
\* and a read whose value equals it prints nothing; with debug off the only
\* lines are those of failed reads.
C33_DebugPrintsChanges ==
    /\ debug =>
         \A n \in DOMAIN reads :
            (reads[n].ok /\ IsSome(PreviousRead(n))) =>
               IF PreviousRead(n) = reads[n].value
               THEN LinesOf(n) = {}
               ELSE /\ Cardinality(LinesOf(n)) = 1
                    /\ \A i \in LinesOf(n) :
                          /\ printed[i].what = "changed"
                          /\ printed[i].key = reads[n].key
                          /\ printed[i].old = PreviousRead(n)
                          /\ printed[i].new = reads[n].value
    /\ ~debug =>
         \A i \in DOMAIN printed :
            printed[i].what = "failed" /\ ~reads[printed[i].read].ok

\* with debug on, a key was read again with another value and the change
\* was printed
C33_Witness ==
    /\ debug
    /\ \E n \in DOMAIN reads :
          reads[n].ok /\ IsSome(PreviousRead(n))
          /\ PreviousRead(n) # reads[n].value /\ LinesOf(n) # {}


-----------------------------------------------------------------------------
(* The mode mappings of the Sway and Hyprland adapters, under AdapterSpec *)

\* for each mapping: the event it serves, the setting it writes, the
\* variants it lists, the tokens it can give and the token of its `_` arm
ModeTable ==
    {[backend |-> "Sway", kind |-> "ClickMethod", setting |-> "click_method",
      known |-> {"ButtonAreas", "Clickfinger"},
      tokens |-> {"button_areas", "clickfinger", "none"}, default |-> "none"],
     [backend |-> "Sway", kind |-> "ScrollMethod", setting |-> "scroll_method",
      known |-> {"TwoFinger", "Edge", "OnButtonDown", "NoScroll"},
      tokens |-> {"two_finger", "edge", "on_button", "none"}, default |-> "none"],
     [backend |-> "Sway", kind |-> "Acceleration", setting |-> "accel_profile",
      known |-> {"Flat", "Adaptive"},
      tokens |-> {"flat", "adaptive", "none"}, default |-> "none"],
     [backend |-> "Hyprland", kind |-> "ScrollMethod",
      setting |-> "input:scroll_method",
      known |-> {"TwoFinger", "Edge", "OnButtonDown", "NoScroll"},
      tokens |-> {"2fg", "edge", "on_button", "none"}, default |-> "none"],
     [backend |-> "Hyprland", kind |-> "ClickMethod",
      setting |-> "input:touchpad:clickfinger_behavior",
      known |-> {"Clickfinger", "ButtonAreas"},
      tokens |-> {"true", "false"}, default |-> "false"],
     [backend |-> "Hyprland", kind |-> "TapButtonMap",
      setting |-> "input:touchpad:tap_button_map",
      known |-> {"LeftRightMiddle", "LeftMiddleRight"},
      tokens |-> {"lrm", "lmr"}, default |-> "lrm"],
     [backend |-> "Hyprland", kind |-> "Acceleration",
      setting |-> "input:accel_profile",
      known |-> {"Flat"},
      tokens |-> {"flat", "adaptive"}, default |-> "adaptive"]}

\* the mode an event carries, as an Option
GenericMode(ev) ==
    IF ~IsSome(ev.val) THEN None
    ELSE IF ev.kind = "Acceleration" THEN Unwrap(ev.val).profile
    ELSE ev.val

\* call i is one that mapping r serves, with a mode to map
Maps(i, r) ==
    /\ backend = Some(r.backend)
    /\ applied[i].ev.kind = r.kind
    /\ <<applied[i].ev.dev, applied[i].ev.kind>> \in
          (IF r.backend = "Sway" THEN SwayOverrides ELSE HyprlandOverrides)
    /\ IsSome(GenericMode(applied[i].ev))

\* the positions of call i's wire at which setting r.setting went out
ModeSent(i, r) ==
    {j \in DOMAIN applied[i].wire :
        /\ IsSome(applied[i].wire[j].cmd)
        /\ Unwrap(applied[i].wire[j].cmd).setting = r.setting}

NoTransportFailure(i) ==
    \A j \in DOMAIN applied[i].wire : applied[i].wire[j].res # "failed"

\* C34: every mode mapping is total: whatever the mode, also one the
\* adapter does not list, the call fails only when the transport fails,
\* the value sent for the setting is one of the mapping's native tokens,
\* and for an unlisted mode it is the mapping's default token.
C34_ModeMappingsAreTotal ==
    \A i \in DOMAIN applied : \A r \in ModeTable :
       Maps(i, r) =>
          /\ applied[i].ok \/ ~NoTransportFailure(i)
          /\ NoTransportFailure(i) => ModeSent(i, r) # {}
          /\ \A j \in ModeSent(i, r) :
                /\ Unwrap(applied[i].wire[j].cmd).value \in r.tokens
                /\ Unwrap(GenericMode(applied[i].ev)) \notin r.known
                      => Unwrap(applied[i].wire[j].cmd).value = r.default

\* an unlisted click method went to Sway as the default token
C34_Witness ==
    \E i \in DOMAIN applied : \E r \in ModeTable :
       /\ Maps(i, r)
       /\ r.backend = "Sway" /\ r.kind = "ClickMethod"
       /\ Unwrap(GenericMode(applied[i].ev)) = UnknownVariant
       /\ applied[i].ok
       /\ \E j \in ModeSent(i, r) :
             Unwrap(applied[i].wire[j].cmd).value = r.default


\* the reads of calls[n]'s key that came before it, and after it
EarlierReads(n) == {m \in 1..(n - 1) : calls[m].key = calls[n].key}
LaterReads(n) == {m \in (n + 1)..Len(calls) : calls[m].key = calls[n].key}

\* C35: a successful read that finds no snapshot for its domain is the
\* first successful read of that domain; it emits no event and stores the
\* value read, so that the next successful read of the domain diffs against
\* it: events of the domain come from the second successful read on.
C35_FirstReadOnlyStores ==
    \A n \in DOMAIN calls :
       calls[n].old = None =>
          /\ EarlierReads(n) = {}
          /\ calls[n].n_events = 0
          /\ IF LaterReads(n) = {}
             THEN snap[calls[n].key] = Some(calls[n].new)
             ELSE \A m \in LaterReads(n) :
                     (\A x \in LaterReads(n) : m <= x) =>
                        calls[m].old = Some(calls[n].new)

\* a domain whose snapshot was None was read twice: the first read emitted
\* nothing, the second emitted the events of the change
C35_Witness ==
    \E n \in DOMAIN calls :
       /\ calls[n].old = None
       /\ calls[n].new # store[calls[n].key]
       /\ \E m \in LaterReads(n) : calls[m].n_events > 0


-----------------------------------------------------------------------------
(* SyncSpec: a touchpad diff and the consumer loop applying the events of
   it one by one through a connected Sway adapter, no command failing *)

SyncInit ==
    /\ domain = "touchpad"
    /\ \E p \in ArgPairs(domain) : old = p[1] /\ new = p[2]
    /\ out = <<>> /\ dpc = "edit" /\ nedits = 0
    /\ ThreadsIdle
    /\ store = <<>> /\ notif = <<>> /\ nwrites = 0 /\ snap = <<>>
    /\ chan = <<>> /\ sent = <<>> /\ applied = <<>>
    /\ backend = Some("Sway") /\ conn = Some(1) /\ nconn = 1
    /\ faults = 0 /\ loop_pc = "running"
    /\ calls = <<>> /\ senders = {"main", "watcher"} /\ seen = <<>>

\* the loop receives the next event of the diff and applies it
ApplyNext ==
    /\ dpc = "done"
    /\ Len(applied) < Len(out)
    /\ LET ev == out[Len(applied) + 1]
           m == SwayApplyEvent(Machine({}), ev)
       IN /\ applied' = Append(applied,
                [ev |-> ev, dispatched |-> TRUE, ok |-> m.ok, wire |-> m.wire,
                 conn0 |-> conn, conn1 |-> m.conn, methods |-> m.methods])
          /\ conn' = m.conn
          /\ nconn' = m.nconn
    /\ UNCHANGED <<wvars, cvars, tvars, dvars, store, notif, nwrites, snap,
                   chan, sent, backend, faults, loop_pc, calls, senders, seen>>

SyncNext == EditNew \/ CallFromTouchpad \/ ApplyNext

SyncSpec == SyncInit /\ [][SyncNext]_vars

\* the touchpad settings the Sway adapter has a command for
SwayTouchpadSettings ==
    {"pointer_accel", "accel_profile", "click_method", "dwt", "left_handed",
     "middle_emulation", "scroll_method", "natural_scroll", "scroll_factor",
     "scroll_button", "tap", "tap_and_drag", "drag_lock"}

\* Option.map
MapOption(o, Op(_)) == IF IsSome(o) THEN Some(Op(Unwrap(o))) ELSE None

AccelSpeed(a) == clamp_speed(a.speed)
SameValue(v) == v

\* what a configuration says about each setting, in Sway's terms; None where
\* it says nothing
Wanted(cfg) ==
    LET acc == cfg.acceleration
        sc == cfg.scroll_config
        tap == cfg.tap_config
    IN [s \in SwayTouchpadSettings |->
         CASE s = "pointer_accel" -> MapOption(acc, AccelSpeed)
           [] s = "accel_profile" ->
                 IF IsSome(acc) THEN MapOption(Unwrap(acc).profile, map_accel_profile)
                 ELSE None
           [] s = "click_method" -> MapOption(cfg.click_method, map_click_method)
           [] s = "dwt" -> MapOption(cfg.disable_while_typing, bool_to_sway)
           [] s = "left_handed" -> MapOption(cfg.left_handed, bool_to_sway)
           [] s = "middle_emulation" ->
                 MapOption(cfg.middle_button_emulation, bool_to_sway)
           [] s = "scroll_method" ->
                 IF IsSome(sc) THEN MapOption(Unwrap(sc).method, map_scroll_method)
                 ELSE None
           [] s = "natural_scroll" ->
                 IF IsSome(sc) THEN MapOption(Unwrap(sc).natural_scroll, bool_to_sway)
                 ELSE None
           [] s = "scroll_factor" ->
                 IF IsSome(sc) THEN MapOption(Unwrap(sc).scroll_factor, SameValue)
                 ELSE None
           [] s = "scroll_button" ->
                 IF IsSome(sc) THEN MapOption(Unwrap(sc).scroll_button, SameValue)
                 ELSE None
           [] s = "tap" -> MapOption(tap, LAMBDA t : bool_to_sway(t.enabled))
           [] s = "tap_and_drag" -> MapOption(tap, LAMBDA t : bool_to_sway(t.drag))
           [] s = "drag_lock" -> MapOption(tap, LAMBDA t : bool_to_sway(t.drag_lock))]

\* where, in the calls made, a command for touchpad setting s went through
SentFor(s) ==
    UNION {{<<i, j>> : j \in {k \in DOMAIN applied[i].wire :
                                /\ applied[i].wire[k].op = "send"
                                /\ applied[i].wire[k].res = "ok"
                                /\ Unwrap(applied[i].wire[k].cmd).target = "type:touchpad"
                                /\ Unwrap(applied[i].wire[k].cmd).setting = s}}
           : i \in DOMAIN applied}

\* setting s holds what new says after the whole diff was applied: the last
\* command for it carried new's value
Holds(s) ==
    /\ SentFor(s) # {}
    /\ LET last == CHOOSE p \in SentFor(s) :
                      \A q \in SentFor(s) :
                         q[1] < p[1] \/ (q[1] = p[1] /\ q[2] <= p[2])
       IN Unwrap(applied[last[1]].wire[last[2]].cmd).value = Unwrap(Wanted(new)[s])

\* new gives setting s a value that old did not give it
Changed(s) == IsSome(Wanted(new)[s]) /\ Wanted(new)[s] # Wanted(old)[s]

\* C36: once every event of from_touchpad(old, new) has been applied
\* through Sway, every command succeeding, each setting Sway can set whose
\* value is present in new and differs from old holds new's value.
C36_SwayHoldsNewValues ==
    (/\ dpc = "done" /\ Len(applied) = Len(out)
     /\ \A i \in DOMAIN applied : AllSucceeded(i)) =>
        \A s \in SwayTouchpadSettings : Changed(s) => Holds(s)


\* the backend settings call i wrote: (target, name) of each command that
\* went through
SettingsWritten(i) ==
    {<<Unwrap(applied[i].wire[k].cmd).target, Unwrap(applied[i].wire[k].cmd).setting>> :
        k \in {x \in ProtocolCalls(applied[i].wire) : applied[i].wire[x].res = "ok"}}

\* C37: on Sway and on Hyprland no backend setting is written both by a
\* touchpad event and by a mouse event.
C37_TouchpadAndMouseDisjoint ==
    backend \in {Some("Sway"), Some("Hyprland")} =>
       \A i, j \in DOMAIN applied :
          (applied[i].ev.dev = "TouchPad" /\ applied[j].ev.dev = "Mouse") =>
             SettingsWritten(i) \cap SettingsWritten(j) = {}


-----------------------------------------------------------------------------
(* Capability calls of several commands, under AdapterSpec *)

\* the commands the method of call i issues when nothing fails
CommandsOf(i) ==
    LET ev == applied[i].ev
    IN IF backend = Some("Sway")
       THEN SwayPointerCommands(SwayTarget(ev.dev), ev.kind, ev.val)
       ELSE HyprlandCommands(ev.dev, ev.kind, ev.val)

\* call i is a touchpad or mouse method of Sway or Hyprland that issues
\* more than one command
SeveralCommands(i) ==
    /\ backend \in {Some("Sway"), Some("Hyprland")}
    /\ applied[i].ev.dev \in {"TouchPad", "Mouse"}
    /\ <<applied[i].ev.dev, applied[i].ev.kind>> \in
          (IF backend = Some("Sway") THEN SwayOverrides ELSE HyprlandOverrides)
    /\ Len(CommandsOf(i)) >= 2

\* the positions of call i's wire that carry the k-th command of its method
WireOf(i, k) == Carrying(applied[i].wire, CommandsOf(i)[k].setting)

\* the k-th command of call i went through: it reached sway and sway
\* answered it
WentThrough(i, k) ==
    \E j \in WireOf(i, k) : applied[i].wire[j].res # "failed"

\* C38: a method of several commands stops at the first command that
\* fails: the call returns the error, the commands before the failing one
\* went through and stay as sent (each carried its own value, nothing was
\* sent to take it back), and no later command was sent.
C38_StopsAtFirstFailure ==
    \A i \in DOMAIN applied :
       (SeveralCommands(i) /\ ~applied[i].ok) =>
          LET cmds == CommandsOf(i)
              w == applied[i].wire
          IN /\ w # <<>> /\ w[Len(w)].res = "failed"
             /\ \E f \in DOMAIN cmds :
                   /\ \A k \in 1..(f - 1) : WentThrough(i, k)
                   /\ ~WentThrough(i, f)
                   /\ \A k \in (f + 1)..Len(cmds) : WireOf(i, k) = {}
             /\ \A j \in DOMAIN w :
                   w[j].cmd # None =>
                      \E k \in DOMAIN cmds :
                         /\ Unwrap(w[j].cmd).setting = cmds[k].setting
                         /\ Unwrap(w[j].cmd).target = cmds[k].target
                         /\ Unwrap(w[j].cmd).value = cmds[k].value

\* a Sway tap_config call whose first command went through and whose second
\* failed for good
C38_Witness ==
    \E i \in DOMAIN applied :
       /\ backend = Some("Sway")
       /\ SeveralCommands(i)
       /\ applied[i].ev.kind = "TapConfig"
       /\ ~applied[i].ok
       /\ WentThrough(i, 1)
       /\ WireOf(i, 2) # {}
       /\ WireOf(i, 3) = {}


\* the positions of call i's wire at which sway refused the command
RefusedAt(i) ==
    {k \in DOMAIN applied[i].wire : applied[i].wire[k].res = "rejected"}

\* C39: when the transport succeeds and sway refuses the command,
\* run_command only logs: it returns success (the call goes on with its next
\* command, or returns Ok when that was the last), it neither reconnects nor
\* sends the command again, and the connection stays the one in use.
C39_RefusalIsOnlyLogged ==
    backend = Some("Sway") =>
       \A i \in DOMAIN applied : \A k \in RefusedAt(i) :
          LET w == applied[i].wire
          IN /\ k = Len(w) => applied[i].ok
             /\ k < Len(w) =>
                   /\ w[k + 1].op = "send"
                   /\ Unwrap(w[k + 1].cmd).setting # Unwrap(w[k].cmd).setting
             /\ \A j \in (k + 1)..Len(w) :
                   w[j].op = "send" =>
                      Unwrap(w[j].cmd).setting # Unwrap(w[k].cmd).setting
             /\ (\A j \in (k + 1)..Len(w) : w[j].res # "failed") =>
                   /\ applied[i].ok
                   /\ \A j \in (k + 1)..Len(w) : w[j].op # "connect"
                   /\ (\A j \in 1..(k - 1) : w[j].op # "connect") =>
                         applied[i].conn1 = applied[i].conn0

\* sway refused the only command of a call on an established connection: the
\* call returned Ok after that one send and the connection is the same
C39_Witness ==
    /\ backend = Some("Sway")
    /\ \E i \in DOMAIN applied :
          /\ RefusedAt(i) = {1}
          /\ Len(applied[i].wire) = 1
          /\ applied[i].ok
          /\ IsSome(applied[i].conn0)
          /\ applied[i].conn1 = applied[i].conn0


-----------------------------------------------------------------------------
(* Absent payloads in the Sway and Hyprland adapters *)

\* the event variants whose payload is an Option
OptionalKinds ==
    {"Options", "Acceleration", "Calibration", "ClickMethod",
     "DisableWhileTyping", "LeftHanded", "MiddleButtonEmulation",
     "RotationAngle", "ScrollConfig", "ScrollMethod", "NaturalScroll",
     "ScrollFactor", "ScrollButton", "TapConfig", "TapButtonMap",
     "MapToOutput"}

\* the call carries nothing to apply: None, or NumlockState::LastBoot
NothingToApply(ev) ==
    \/ ev.kind \in OptionalKinds /\ ev.val = None
    \/ ev.kind = "NumLock" /\ ev.val = "LastBoot"

\* C40: in the Sway and Hyprland adapters a capability call whose optional
\* payload is None, and a numlock call with LastBoot, performs no transport
\* operation at all (no command, no connect), leaves the connection as it
\* was and returns success
C40_NoneSendsNothing ==
    backend \in {Some("Sway"), Some("Hyprland")} =>
        \A i \in DOMAIN applied :
            NothingToApply(applied[i].ev) =>
                /\ applied[i].wire = <<>>
                /\ applied[i].ok
                /\ applied[i].conn1 = applied[i].conn0

\* Sway before init(): touchpad_left_handed(None) on a missing connection
\* returned Ok without a connect
C40_Witness ==
    /\ backend = Some("Sway")
    /\ \E i \in DOMAIN applied :
          /\ applied[i].ev = [dev |-> "TouchPad", kind |-> "LeftHanded",
                              val |-> None]
          /\ applied[i].conn0 = None
          /\ applied[i].conn1 = None
          /\ applied[i].wire = <<>>
          /\ applied[i].ok

=============================================================================
